---- MODULE Spec2Model ----
(***************************************************************************)
(* Model of the initial-placement program (task4/Program/                  *)
(* initial_placement_fixed.py; Version_Python/task4/Program/               *)
(* initial_placement.py is the same code with Chinese comments).           *)
(*                                                                         *)
(* The state is one BookshelfParser object (`self`), the four input files  *)
(* it reads and the sequence of methods its client calls after parse_all   *)
(* (`input`), the last method that returned (`pc`), how many of the        *)
(* client's calls returned (`calls`), what the last calls returned         *)
(* (`built`, `ret`), and the output file (`out`).  Every method is an      *)
(* operator on the object, written from its source; an action applies one  *)
(* method.  The client is either a test program, which calls the methods   *)
(* it lists, or InitialPlacement.run, which calls solve, legalize and      *)
(* write and returns at the first of them that fails.                      *)
(*                                                                         *)
(* Numbers.  Python floats are modelled as records F(n) (a number) or NaN, *)
(* with the IEEE rule that every comparison with NaN is false; a finite    *)
(* float carries seven decimal places, one more than the writer prints.    *)
(* The clique                                                              *)
(* weight 1.0/(d-1) is kept exact: every matrix entry and right-hand side  *)
(* is stored multiplied by Scale, the least common multiple of the         *)
(* possible d-1.                                                           *)
(***************************************************************************)
EXTENDS Integers, Sequences, FiniteSets, TLC

VARIABLES input, self, pc, calls, built, ret, out, sol

vars == <<input, self, pc, calls, built, ret, out, sol>>

(***************************************************************************)
(* Bounds of the model.                                                    *)
(***************************************************************************)
\* most pin lines under one NetDegree line of an input .nets file
MaxPins == 3
\* most nets of an input .nets file
MaxNets == 2
\* the finite coordinates of the model reach from 1 below the low edge of
\* the default core to MaxCoord above it, and from MaxCoord below its high
\* edge to 1 above it
MaxCoord == 1
\* the widths and heights of the clipping inputs are 1 .. MaxSize, the span of
\* the default core, and one more
MaxSize == 2
\* most node declarations of the .nodes files of the parsing inputs
MaxDecls == 3
\* the wall clock reads 0 .. MaxClock seconds when the output is written
MaxClock == 1
\* most pin lines of a net, and most nets, of the .nets files of the
\* pipeline inputs
MaxRunPins == 2
MaxRunNets == 1
\* most CoreRow blocks of the .scl files of the row inputs
MaxRows == 2

(***************************************************************************)
(* Floats.                                                                 *)
(***************************************************************************)
\* A finite float is v + e / Subunits with 0 <= e < Subunits: v whole units
\* and e tenths of the sixth decimal place, the place "{x:.6f}" rounds to.
Subunits == 10000000
\* the subunits of one unit of the sixth decimal place
Ulp6 == 10

Frac(n, sub) == [nan |-> FALSE, v |-> n, e |-> sub]
F(n) == Frac(n, 0)
NaN == [nan |-> TRUE, v |-> 0, e |-> 0]

FLt(a, b) == ~a.nan /\ ~b.nan /\ (a.v < b.v \/ (a.v = b.v /\ a.e < b.e))
FGt(a, b) == ~a.nan /\ ~b.nan /\ (a.v > b.v \/ (a.v = b.v /\ a.e > b.e))
FLe(a, b) == ~a.nan /\ ~b.nan /\ (a.v < b.v \/ (a.v = b.v /\ a.e <= b.e))
FAdd(a, b) ==
    IF a.nan \/ b.nan THEN NaN
    ELSE Frac(a.v + b.v + ((a.e + b.e) \div Subunits), (a.e + b.e) % Subunits)
\* k * a for an exact (scaled) weight k >= 0; the model's e are at most a
\* few Ulp6, so k * a.e does not overflow
FMul(k, a) ==
    IF a.nan THEN NaN
    ELSE Frac(k * a.v + ((k * a.e) \div Subunits), (k * a.e) % Subunits)

RECURSIVE Gcd(_, _)
Gcd(a, b) == IF b = 0 THEN a ELSE Gcd(b, a % b)

RECURSIVE LcmUpTo(_)
LcmUpTo(k) == IF k <= 1 THEN 1
              ELSE LET l == LcmUpTo(k - 1) IN (l * k) \div Gcd(l, k)

\* all weights are stored as multiples of 1/Scale
Scale == LcmUpTo(MaxPins - 1)

(***************************************************************************)
(* Python dicts: a sequence of (key, ref) in insertion order; ref is the   *)
(* index of the node object in self.heap.  The three dicts nodes,          *)
(* movable_nodes and fixed_nodes hold references to shared node objects.   *)
(***************************************************************************)
Min(S) == CHOOSE m \in S : \A n \in S : m <= n
Max(S) == CHOOSE m \in S : \A n \in S : m >= n

HasKey(d, k) == \E i \in DOMAIN d : d[i].key = k

Get(d, k) == d[CHOOSE i \in DOMAIN d : d[i].key = k].ref

\* d[k] = r : a new key is appended, an old key keeps its place
Put(d, k, r) ==
    IF HasKey(d, k)
    THEN [i \in DOMAIN d |-> IF d[i].key = k THEN [key |-> k, ref |-> r] ELSE d[i]]
    ELSE Append(d, [key |-> k, ref |-> r])

\* position of key k in list(d.keys()), counted from 1
IndexOf(d, k) == CHOOSE i \in DOMAIN d : d[i].key = k

RECURSIVE SumSeq(_)
SumSeq(s) == IF s = <<>> THEN 0 ELSE Head(s) + SumSeq(Tail(s))

(***************************************************************************)
(* BookshelfParser.__init__                                                *)
(***************************************************************************)
NewParser ==
    [ num_modules |-> 0, num_nodes |-> 0, num_terminals |-> 0,
      num_nets |-> 0, num_pins |-> 0,
      core_lower_left |-> <<0, 0>>, core_upper_right |-> <<0, 0>>,
      row_height |-> 0, row_number |-> 0, site_step |-> 0,
      core_area |-> 0, cell_area |-> 0, movable_area |-> 0,
      fixed_area |-> 0, fixed_area_in_core |-> 0,
      heap |-> <<>>, nodes |-> <<>>, nets |-> <<>>,
      fixed_nodes |-> <<>>, movable_nodes |-> <<>> ]

(***************************************************************************)
(* .nodes : a file is the sequence of its lines.                           *)
(*   [kind |-> "NumNodes",     val |-> n]   NumNodes : n                   *)
(*   [kind |-> "NumTerminals", val |-> n]   NumTerminals : n               *)
(*   [kind |-> "node", name, w, h]          <name> <w> <h> [terminal]      *)
(*   [kind |-> "#"]                         comment or blank line          *)
(***************************************************************************)
NumNodesLine(n) == [kind |-> "NumNodes", val |-> n, name |-> "", w |-> 0, h |-> 0]
NumTerminalsLine(n) == [kind |-> "NumTerminals", val |-> n, name |-> "", w |-> 0, h |-> 0]
NodeLine(nm, w, h) == [kind |-> "node", val |-> 0, name |-> nm, w |-> w, h |-> h]
CommentLine == [kind |-> "#", val |-> 0, name |-> "", w |-> 0, h |-> 0]

\* the header loop: NumTerminals ends it (break)
RECURSIVE NodesHeader(_, _, _, _)
NodesHeader(lines, i, num_modules, num_terminals) ==
    IF i > Len(lines) THEN <<num_modules, num_terminals>>
    ELSE IF lines[i].kind = "NumNodes"
         THEN NodesHeader(lines, i + 1, lines[i].val, num_terminals)
    ELSE IF lines[i].kind = "NumTerminals"
         THEN <<num_modules, lines[i].val>>
    ELSE NodesHeader(lines, i + 1, num_modules, num_terminals)

\* AddNode with ">" for ">=": one declaration too many is movable
AddNodeOffByOne(s, line) ==
    LET ref == Len(s.heap) + 1
        terminal == Len(s.nodes) > s.num_modules - s.num_terminals
        node == [ name |-> line.name, width |-> line.w, height |-> line.h,
                  x |-> F(0), y |-> F(0), is_fixed |-> terminal,
                  area |-> line.w * line.h, orientation |-> "" ]
    IN [s EXCEPT !.heap = Append(@, node),
                 !.fixed_nodes = IF terminal THEN Put(@, line.name, ref) ELSE @,
                 !.movable_nodes = IF terminal THEN @ ELSE Put(@, line.name, ref),
                 !.nodes = Put(@, line.name, ref)]

\* one node declaration: the node object and the dicts it is put in
AddNode(s, line) ==
    LET ref == Len(s.heap) + 1
        terminal == Len(s.nodes) >= s.num_modules - s.num_terminals
        node == [ name |-> line.name, width |-> line.w, height |-> line.h,
                  x |-> F(0), y |-> F(0), is_fixed |-> terminal,
                  area |-> line.w * line.h, orientation |-> "" ]
    IN [s EXCEPT !.heap = Append(@, node),
                 !.fixed_nodes = IF terminal THEN Put(@, line.name, ref) ELSE @,
                 !.movable_nodes = IF terminal THEN @ ELSE Put(@, line.name, ref),
                 !.nodes = Put(@, line.name, ref)]

\* the node loop: declarations count once a header line has been seen
RECURSIVE NodesLoop(_, _, _, _)
NodesLoop(lines, i, node_start, s) ==
    IF i > Len(lines) THEN s
    ELSE IF lines[i].kind = "#" THEN NodesLoop(lines, i + 1, node_start, s)
    ELSE IF lines[i].kind \in {"NumNodes", "NumTerminals"}
         THEN NodesLoop(lines, i + 1, TRUE, s)
    ELSE IF node_start
         THEN NodesLoop(lines, i + 1, node_start, AddNode(s, lines[i]))
    ELSE NodesLoop(lines, i + 1, node_start, s)

parse_nodes(s, lines) ==
    LET hdr == NodesHeader(lines, 1, s.num_modules, s.num_terminals)
        s1 == [s EXCEPT !.num_modules = hdr[1], !.num_terminals = hdr[2],
                        !.num_nodes = hdr[1] - hdr[2]]
        s2 == NodesLoop(lines, 1, FALSE, s1)
        area == SumSeq([i \in DOMAIN s2.movable_nodes |->
                           s2.heap[s2.movable_nodes[i].ref].area])
    IN [s2 EXCEPT !.cell_area = area, !.movable_area = area]

(***************************************************************************)
(* .nets                                                                   *)
(*   [kind |-> "NumNets", val]  [kind |-> "NumPins", val]                  *)
(*   [kind |-> "NetDegree", val |-> d, name |-> net name]                  *)
(*   [kind |-> "pin", name |-> node name, type |-> "I" | "O" | "B"]        *)
(***************************************************************************)
NumNetsLine(n) == [kind |-> "NumNets", val |-> n, name |-> "", type |-> ""]
NumPinsLine(n) == [kind |-> "NumPins", val |-> n, name |-> "", type |-> ""]
NetDegreeLine(d, nm) == [kind |-> "NetDegree", val |-> d, name |-> nm, type |-> ""]
PinLine(nm, t) == [kind |-> "pin", val |-> 0, name |-> nm, type |-> t]

\* the header loop: NumPins ends it (break)
RECURSIVE NetsHeader(_, _, _, _)
NetsHeader(lines, i, num_nets, num_pins) ==
    IF i > Len(lines) THEN <<num_nets, num_pins>>
    ELSE IF lines[i].kind = "NumNets"
         THEN NetsHeader(lines, i + 1, lines[i].val, num_pins)
    ELSE IF lines[i].kind = "NumPins"
         THEN <<num_nets, lines[i].val>>
    ELSE NetsHeader(lines, i + 1, num_nets, num_pins)

\* "if current_net is not None and net_pins: self.nets.append(...)"
SaveNet(nets, current_net, net_pins) ==
    IF current_net # "" /\ net_pins # <<>>
    THEN Append(nets, [name |-> current_net, pins |-> net_pins,
                       degree |-> Len(net_pins)])
    ELSE nets

\* the net loop; current_net = "" stands for None.  A pin of a node that
\* is not in self.nodes is dropped.
RECURSIVE NetsLoop(_, _, _, _, _)
NetsLoop(lines, i, current_net, net_pins, s) ==
    IF i > Len(lines)
    THEN [s EXCEPT !.nets = SaveNet(@, current_net, net_pins)]
    ELSE IF lines[i].kind \in {"#", "NumNets", "NumPins"}
         THEN NetsLoop(lines, i + 1, current_net, net_pins, s)
    ELSE IF lines[i].kind = "NetDegree"
         THEN NetsLoop(lines, i + 1, lines[i].name, <<>>,
                       [s EXCEPT !.nets = SaveNet(@, current_net, net_pins)])
    ELSE IF HasKey(s.nodes, lines[i].name)
         THEN NetsLoop(lines, i + 1, current_net,
                       Append(net_pins, [node |-> lines[i].name,
                                         type |-> lines[i].type]), s)
    ELSE NetsLoop(lines, i + 1, current_net, net_pins, s)

parse_nets(s, lines) ==
    LET hdr == NetsHeader(lines, 1, s.num_nets, s.num_pins)
        s1 == [s EXCEPT !.num_nets = hdr[1], !.num_pins = hdr[2]]
    IN NetsLoop(lines, 1, "", <<>>, s1)

(***************************************************************************)
(* .scl                                                                    *)
(*   [kind |-> "NumRows", val]   [kind |-> "CoreRow"]   [kind |-> "End"]   *)
(*   [kind |-> "Coordinate", val]  [kind |-> "Height", val]                *)
(*   [kind |-> "Sitewidth", val]                                           *)
(*   [kind |-> "SubrowOrigin", val |-> x, rest |-> tokens]                 *)
(* A SubrowOrigin line is split at its colons: x_origin is the first token *)
(* after the first colon, num_sites is parts[2].strip().split()[1], the    *)
(* SECOND token after the second colon.  rest holds the tokens after the   *)
(* second colon: <<n>> for "SubrowOrigin : <x> NumSites : <n>".            *)
(* min_x .. max_y start at +-inf: [set |-> FALSE].                         *)
(***************************************************************************)
SclLine(k, v, rest) == [kind |-> k, val |-> v, rest |-> rest]

Inf == [set |-> FALSE, v |-> 0]
Fin(n) == [set |-> TRUE, v |-> n]
MinInf(a, n) == IF a.set /\ a.v <= n THEN a ELSE Fin(n)
MaxInf(a, n) == IF a.set /\ a.v >= n THEN a ELSE Fin(n)

\* the core used when no row gave all four extremes
DefaultCoreMax == 10000

Coords == (-1 .. MaxCoord) \cup ((DefaultCoreMax - MaxCoord) .. (DefaultCoreMax + 1))

\* the inner while loop over the lines of one CoreRow block, up to End.
\* A SubrowOrigin line without a second token after its second colon raises
\* IndexError, which the code passes over: the line changes nothing.
\* c holds min_x, max_x, min_y, max_y, row_info and the fields of self
\* the loop sets (row_height, site_step).
RECURSIVE SclRow(_, _, _)
SclRow(lines, j, c) ==
    IF j > Len(lines) \/ lines[j].kind = "End" THEN c
    ELSE LET l == lines[j] IN
      IF l.kind = "Coordinate"
      THEN SclRow(lines, j + 1,
                  [c EXCEPT !.has_y = TRUE, !.y = l.val, !.min_y = MinInf(@, l.val)])
      ELSE IF l.kind = "Height"
      THEN SclRow(lines, j + 1,
                  [c EXCEPT !.has_h = TRUE, !.h = l.val,
                            !.row_height = IF @ = 0 THEN l.val ELSE @])
      ELSE IF l.kind = "Sitewidth"
      THEN SclRow(lines, j + 1,
                  [c EXCEPT !.site_step = IF @ = 0 THEN l.val ELSE @])
      ELSE IF l.kind = "SubrowOrigin" /\ Len(l.rest) >= 2
      THEN SclRow(lines, j + 1,
                  [c EXCEPT !.min_x = MinInf(@, l.val),
                            !.max_x = MaxInf(@, l.val + l.rest[2] * c.site_step - 1),
                            !.max_y = IF c.has_y /\ c.has_h
                                      THEN MaxInf(@, c.y + c.h - 1) ELSE @])
      ELSE SclRow(lines, j + 1, c)

\* the outer loop: NumRows, and one SclRow per "CoreRow Horizontal" line
RECURSIVE SclLoop(_, _, _)
SclLoop(lines, i, c) ==
    IF i > Len(lines) THEN c
    ELSE IF lines[i].kind = "NumRows"
         THEN SclLoop(lines, i + 1, [c EXCEPT !.row_number = lines[i].val])
    ELSE IF lines[i].kind = "CoreRow"
         THEN SclLoop(lines, i + 1,
                      SclRow(lines, i + 1, [c EXCEPT !.has_y = FALSE, !.has_h = FALSE]))
    ELSE SclLoop(lines, i + 1, c)

parse_scl(s, lines) ==
    LET c0 == [min_x |-> Inf, max_x |-> Inf, min_y |-> Inf, max_y |-> Inf,
               has_y |-> FALSE, y |-> 0, has_h |-> FALSE, h |-> 0,
               row_height |-> s.row_height, site_step |-> s.site_step,
               row_number |-> s.row_number]
        c == SclLoop(lines, 1, c0)
        found == c.min_x.set /\ c.min_y.set /\ c.max_x.set /\ c.max_y.set
        ll == IF found THEN <<c.min_x.v, c.min_y.v>> ELSE <<0, 0>>
        ur == IF found THEN <<c.max_x.v, c.max_y.v>>
                       ELSE <<DefaultCoreMax, DefaultCoreMax>>
    IN [s EXCEPT !.row_number = c.row_number, !.row_height = c.row_height,
                 !.site_step = c.site_step,
                 !.core_lower_left = ll, !.core_upper_right = ur,
                 !.core_area = (ur[1] - ll[1] + 1) * (ur[2] - ll[2] + 1)]

(***************************************************************************)
(* .pl                                                                     *)
(*   [kind |-> "banner"]                       UCLA pl 1.0                 *)
(*   [kind |-> "rec", name, x, y, rest]        <name> <x> <y> <rest...>    *)
(* line.split() of a record is <<name, x, y>> \o rest, so parts[3] is      *)
(* rest[1]: ":" for the Bookshelf form "<name> <x> <y> : <orient> /FIXED". *)
(* x and y are tokens [ok, f]: float(token) is f, or raises ValueError     *)
(* when ok is FALSE.                                                       *)
(***************************************************************************)
Tok(n) == [ok |-> TRUE, f |-> F(n)]
BadTok == [ok |-> FALSE, f |-> F(0)]
PlBanner == [kind |-> "banner", name |-> "", x |-> Tok(0), y |-> Tok(0), rest |-> <<>>]
PlRec(nm, x, y, rest) == [kind |-> "rec", name |-> nm, x |-> x, y |-> y, rest |-> rest]

\* "for i, line in enumerate(lines): if line.startswith('UCLA pl'): ..."
RECURSIVE PlStart(_, _)
PlStart(lines, i) ==
    IF i > Len(lines) THEN 1
    ELSE IF lines[i].kind = "banner" THEN i + 1
    ELSE PlStart(lines, i + 1)

InCore(s, x, y) ==
    /\ FLe(F(s.core_lower_left[1]), x) /\ FLe(x, F(s.core_upper_right[1]))
    /\ FLe(F(s.core_lower_left[2]), y) /\ FLe(y, F(s.core_upper_right[2]))

\* one record whose node is in self.nodes.  a = [s, fixed_area,
\* fixed_area_in_core, raised].
PlRecord(a, line) ==
    LET s == a.s
        ref == Get(s.nodes, line.name)
        orientation == line.rest[1]
        fixed == orientation = "F" \/ HasKey(s.fixed_nodes, line.name)
        area == s.heap[ref].area
        heap1 == [s.heap EXCEPT ![ref].x = line.x.f, ![ref].y = line.y.f,
                                ![ref].orientation = orientation]
        heap2 == IF fixed THEN [heap1 EXCEPT ![ref].is_fixed = TRUE] ELSE heap1
    IN [a EXCEPT !.s = [s EXCEPT !.heap = heap2,
                                 !.fixed_nodes = IF fixed THEN Put(@, line.name, ref)
                                                          ELSE @],
                 !.fixed_area = IF fixed THEN @ + area ELSE @,
                 !.fixed_area_in_core =
                     IF fixed /\ InCore(s, line.x.f, line.y.f) THEN @ + area ELSE @]

RECURSIVE PlLoop(_, _, _)
PlLoop(lines, i, a) ==
    IF i > Len(lines) THEN a
    ELSE IF lines[i].kind # "rec" \/ Len(lines[i].rest) < 1
         THEN PlLoop(lines, i + 1, a)
    ELSE IF ~lines[i].x.ok \/ ~lines[i].y.ok
         THEN [a EXCEPT !.raised = TRUE]
    ELSE IF HasKey(a.s.nodes, lines[i].name)
         THEN PlLoop(lines, i + 1, PlRecord(a, lines[i]))
    ELSE PlLoop(lines, i + 1, a)

\* a ValueError leaves the loop for the except clause: the node updates made
\* so far stay, fixed_area and fixed_area_in_core are not stored
parse_pl(s, lines) ==
    LET a == PlLoop(lines, PlStart(lines, 1),
                    [s |-> s, fixed_area |-> 0, fixed_area_in_core |-> 0,
                     raised |-> FALSE])
    IN IF a.raised THEN a.s
       ELSE [a.s EXCEPT !.fixed_area = a.fixed_area,
                        !.fixed_area_in_core = a.fixed_area_in_core]

(***************************************************************************)
(* build_quadratic_matrix                                                  *)
(***************************************************************************)
\* weight = 1.0 / (degree - 1), as a multiple of 1/Scale
Weight(degree) == Scale \div (degree - 1)

RECURSIVE FSum(_)
FSum(s) == IF s = <<>> THEN F(0) ELSE FAdd(FSum(SubSeq(s, 1, Len(s) - 1)), s[Len(s)])

\* the pins of the net whose node is in self.fixed_nodes
FixedPins(s, pins) == SelectSeq(pins, LAMBDA p : HasKey(s.fixed_nodes, p.node))

fixed_x(s, pins) ==
    LET fp == FixedPins(s, pins)
    IN FSum([k \in DOMAIN fp |-> s.heap[Get(s.fixed_nodes, fp[k].node)].x])

fixed_y(s, pins) ==
    LET fp == FixedPins(s, pins)
    IN FSum([k \in DOMAIN fp |-> s.heap[Get(s.fixed_nodes, fp[k].node)].y])

\* (i, j) in the order of "for i, pin_i in enumerate(pins): for j, pin_j ..."
PinPairs(d) == [k \in 1 .. (d * d) |-> <<((k - 1) \div d) + 1, ((k - 1) % d) + 1>>]

\* MovablePairs with the inner loop over j > i only
MovablePairsUpper(s, pins) ==
    SelectSeq(PinPairs(Len(pins)),
              LAMBDA p : /\ p[1] < p[2]
                         /\ HasKey(s.movable_nodes, pins[p[1]].node)
                         /\ HasKey(s.movable_nodes, pins[p[2]].node))

\* the pairs that reach the two appends: i # j, node_i and node_j both in
\* self.movable_nodes
MovablePairs(s, pins) ==
    SelectSeq(PinPairs(Len(pins)),
              LAMBDA p : /\ p[1] # p[2]
                         /\ HasKey(s.movable_nodes, pins[p[1]].node)
                         /\ HasKey(s.movable_nodes, pins[p[2]].node))

\* NetTriplets with, for every pin on a movable node, the weight of the
\* net's fixed pins added to the diagonal
NetTripletsWithAnchors(s, pins) ==
    LET prs == MovablePairs(s, pins)
        mp == SelectSeq(pins, LAMBDA p : HasKey(s.movable_nodes, p.node))
        weight == Weight(Len(pins))
    IN [k \in 1 .. (2 * Len(prs)) |->
          LET p == prs[(k + 1) \div 2]
              idx_i == IndexOf(s.movable_nodes, pins[p[1]].node)
              idx_j == IndexOf(s.movable_nodes, pins[p[2]].node)
          IN IF k % 2 = 1 THEN [row |-> idx_i, col |-> idx_i, data |-> weight]
                          ELSE [row |-> idx_i, col |-> idx_j, data |-> -weight]]
       \o [k \in DOMAIN mp |->
             [row |-> IndexOf(s.movable_nodes, mp[k].node),
              col |-> IndexOf(s.movable_nodes, mp[k].node),
              data |-> weight * Len(FixedPins(s, pins))]]

\* NetTriplets without the diagonal element of a pair of pins of one node
NetTripletsNoSelfDiag(s, pins) ==
    LET prs == MovablePairs(s, pins)
        weight == Weight(Len(pins))
    IN [k \in 1 .. (2 * Len(prs)) |->
          LET p == prs[(k + 1) \div 2]
              idx_i == IndexOf(s.movable_nodes, pins[p[1]].node)
              idx_j == IndexOf(s.movable_nodes, pins[p[2]].node)
          IN IF k % 2 = 1
             THEN [row |-> idx_i, col |-> idx_i,
                   data |-> IF idx_i = idx_j THEN 0 ELSE weight]
             ELSE [row |-> idx_i, col |-> idx_j, data |-> -weight]]

\* what one net appends to rows, cols, data: per pair the diagonal element
\* (idx_i, idx_i, weight), then the off-diagonal element (idx_i, idx_j, -weight)
NetTriplets(s, pins) ==
    LET prs == MovablePairs(s, pins)
        weight == Weight(Len(pins))
    IN [k \in 1 .. (2 * Len(prs)) |->
          LET p == prs[(k + 1) \div 2]
              idx_i == IndexOf(s.movable_nodes, pins[p[1]].node)
              idx_j == IndexOf(s.movable_nodes, pins[p[2]].node)
          IN IF k % 2 = 1 THEN [row |-> idx_i, col |-> idx_i, data |-> weight]
                          ELSE [row |-> idx_i, col |-> idx_j, data |-> -weight]]

\* what one net adds to b_x and b_y: once per pin on a movable node, when the
\* net has a pin on a fixed node
NetRhs(s, pins) ==
    LET mp == SelectSeq(pins, LAMBDA p : HasKey(s.movable_nodes, p.node))
        weight == Weight(Len(pins))
    IN IF FixedPins(s, pins) = <<>> THEN <<>>
       ELSE [k \in DOMAIN mp |->
               [row |-> IndexOf(s.movable_nodes, mp[k].node),
                bx |-> FMul(weight, fixed_x(s, pins)),
                by |-> FMul(weight, fixed_y(s, pins))]]

\* "for net in self.nets", nets of degree <= 1 skipped
RECURSIVE AllTriplets(_, _)
AllTriplets(s, k) ==
    IF k = 0 THEN <<>>
    ELSE AllTriplets(s, k - 1) \o
         (IF Len(s.nets[k].pins) <= 1 THEN <<>> ELSE NetTriplets(s, s.nets[k].pins))

RECURSIVE AllRhs(_, _)
AllRhs(s, k) ==
    IF k = 0 THEN <<>>
    ELSE AllRhs(s, k - 1) \o
         (IF Len(s.nets[k].pins) <= 1 THEN <<>> ELSE NetRhs(s, s.nets[k].pins))

\* coo_tocsr keeping the last entry of a (row, col) instead of the sum
coo_overwrite(trip, n) ==
    [r \in 1 .. n |-> [c \in 1 .. n |->
        LET hit == SelectSeq(trip, LAMBDA t : t.row = r /\ t.col = c)
        IN IF hit = <<>> THEN 0 ELSE hit[Len(hit)].data]]

\* sparse.coo_matrix((data, (rows, cols)), shape=(n, n)).tocsr(): the
\* entries of one (row, col) are added up
coo_tocsr(trip, n) ==
    [r \in 1 .. n |-> [c \in 1 .. n |->
        LET hit == SelectSeq(trip, LAMBDA t : t.row = r /\ t.col = c)
        IN SumSeq([k \in DOMAIN hit |-> hit[k].data])]]

\* the value returned: (A, b_x, A, b_y) as [n, A, b_x, b_y]
build_quadratic_matrix(s) ==
    LET n == Len(s.movable_nodes)
        trip == AllTriplets(s, Len(s.nets))
        rhs == AllRhs(s, Len(s.nets))
    IN [ n |-> n,
         A |-> coo_tocsr(trip, n),
         b_x |-> [r \in 1 .. n |->
                    LET hit == SelectSeq(rhs, LAMBDA t : t.row = r)
                    IN FSum([k \in DOMAIN hit |-> hit[k].bx])],
         b_y |-> [r \in 1 .. n |->
                    LET hit == SelectSeq(rhs, LAMBDA t : t.row = r)
                    IN FSum([k \in DOMAIN hit |-> hit[k].by])] ]

NoSystem == [n |-> 0, A |-> <<>>, b_x |-> <<>>, b_y |-> <<>>]

(***************************************************************************)
(* solve_quadratic_placement                                               *)
(*                                                                         *)
(* scipy's spsolve is a library: it is modelled by what it may return.     *)
(* For an exactly singular matrix it warns (MatrixRankWarning) and returns *)
(* a vector filled with NaN; it raises nothing.  A matrix whose rows all   *)
(* sum to zero is singular (A.1 = 0).  When the elimination does not meet  *)
(* an exact zero pivot the result is some finite vector.                   *)
(***************************************************************************)
RowSumsZero(sys) ==
    \A r \in 1 .. sys.n : SumSeq(sys.A[r]) = 0

\* the vectors spsolve may return for the system (A, b)
spsolve(sys) ==
    LET finite == [1 .. sys.n -> {F(c) : c \in Coords}]
    IN IF sys.n >= 1 /\ RowSumsZero(sys)
       THEN finite \cup {[r \in 1 .. sys.n |-> NaN]}
       ELSE finite

\* component i stored in the node that is i-th from the end of the list
StoreSolutionReversed(s, x, y) ==
    [s EXCEPT !.heap =
        [r \in DOMAIN s.heap |->
            IF \E i \in DOMAIN s.movable_nodes : s.movable_nodes[i].ref = r
            THEN LET i == CHOOSE i \in DOMAIN s.movable_nodes :
                              s.movable_nodes[i].ref = r
                 IN [s.heap[r] EXCEPT !.x = x[Len(x) + 1 - i], !.y = y[Len(y) + 1 - i]]
            ELSE s.heap[r]]]

\* "for i, node_name in enumerate(movable_nodes_list): node['x'] = float(x[i])"
StoreSolution(s, x, y) ==
    [s EXCEPT !.heap =
        [r \in DOMAIN s.heap |->
            IF \E i \in DOMAIN s.movable_nodes : s.movable_nodes[i].ref = r
            THEN LET i == CHOOSE i \in DOMAIN s.movable_nodes :
                              s.movable_nodes[i].ref = r
                 IN [s.heap[r] EXCEPT !.x = x[i], !.y = y[i]]
            ELSE s.heap[r]]]

(***************************************************************************)
(* legalize_placement                                                      *)
(***************************************************************************)
\* "if v < lo: v = lo  elif v + size > hi: v = hi - size"
Clamp(v, size, lo, hi) ==
    IF FLt(v, F(lo)) THEN F(lo)
    ELSE IF FGt(FAdd(v, F(size)), F(hi)) THEN F(hi - size)
    ELSE v

LegalizeNode(s, node) ==
    [node EXCEPT !.x = Clamp(node.x, node.width,
                             s.core_lower_left[1], s.core_upper_right[1]),
                 !.y = Clamp(node.y, node.height,
                             s.core_lower_left[2], s.core_upper_right[2])]

\* "for node_name, node in self.movable_nodes.items()": the objects the
\* dict refers to are distinct, so the loop is a map over them
legalize_placement(s) ==
    [s EXCEPT !.heap =
        [r \in DOMAIN s.heap |->
            IF \E i \in DOMAIN s.movable_nodes : s.movable_nodes[i].ref = r
            THEN LegalizeNode(s, s.heap[r])
            ELSE s.heap[r]]]

(***************************************************************************)
(* write_placement_result                                                  *)
(*                                                                         *)
(* The output file is a sequence of .pl lines, so that parse_pl can read   *)
(* it back.  "{x:.6f}" prints the float rounded to six decimal places, and *)
(* "nan" for NaN, which float() reads back as NaN.                         *)
(***************************************************************************)
\* the float that the text "{f:.6f}" denotes
Round6(f) ==
    IF f.nan THEN NaN
    ELSE LET sub == ((f.e + (Ulp6 \div 2)) \div Ulp6) * Ulp6
         IN IF sub >= Subunits THEN Frac(f.v + 1, sub - Subunits)
            ELSE Frac(f.v, sub)

PlComment(text) ==
    [kind |-> "comment", name |-> "", x |-> Tok(0), y |-> Tok(0), rest |-> text]

\* "# Date: " + time.strftime("%Y-%m-%d %H:%M:%S")
Clock == 0 .. MaxClock
DateLine(t) == PlComment(<<"#", "Date:", ToString(t)>>)

\* f"{node_name}\t{node['x']:.6f}\t{node['y']:.6f}\t: F\n" (": N\n")
OutRecord(s, entry, orient) ==
    PlRec(entry.key, [ok |-> TRUE, f |-> Round6(s.heap[entry.ref].x)],
                     [ok |-> TRUE, f |-> Round6(s.heap[entry.ref].y)],
          <<":", orient>>)

\* the lines written at clock time t: the banner, two comment lines, a
\* line for every entry of fixed_nodes, then one for every entry of
\* movable_nodes
write_placement_result(s, t) ==
    <<PlBanner, PlComment(<<"#", "Generated", "by", "Initial", "Placement", "Program">>),
      DateLine(t)>>
    \o [i \in DOMAIN s.fixed_nodes |-> OutRecord(s, s.fixed_nodes[i], "F")]
    \o [i \in DOMAIN s.movable_nodes |-> OutRecord(s, s.movable_nodes[i], "N")]

\* no output file
NoFile == <<>>

\* the vectors x and y of solve_quadratic_placement, before spsolve returns
NoSolution == [x |-> <<>>, y |-> <<>>]

(***************************************************************************)
(* Input files.                                                            *)
(***************************************************************************)
SeqsUpTo(S, n) == UNION {[1 .. k -> S] : k \in 0 .. n}

\* cells are named a, b; the terminal is named t
Unit(nm) == NodeLine(nm, 1, 1)

NodesFile(num_nodes, num_terminals, decls) ==
    <<NumNodesLine(num_nodes), NumTerminalsLine(num_terminals)>> \o decls

\* the same file with the two header lines exchanged
NodesFileRev(num_nodes, num_terminals, decls) ==
    <<NumTerminalsLine(num_terminals), NumNodesLine(num_nodes)>> \o decls

NetNames == <<"n1", "n2", "n3", "n4">>

RECURSIVE NetBlocks(_, _)
NetBlocks(pinlists, k) ==
    IF k = 0 THEN <<>>
    ELSE NetBlocks(pinlists, k - 1)
         \o <<NetDegreeLine(Len(pinlists[k]), NetNames[k])>>
         \o [i \in DOMAIN pinlists[k] |-> PinLine(pinlists[k][i], "I")]

\* the .nets file of the nets whose pins are on the nodes pinlists[k]
NetsFile(pinlists) ==
    <<NumNetsLine(Len(pinlists)),
      NumPinsLine(SumSeq([k \in DOMAIN pinlists |-> Len(pinlists[k])]))>>
    \o NetBlocks(pinlists, Len(pinlists))

\* one row at (x, y) of n sites of width sw and of height h, in the
\* Bookshelf form "SubrowOrigin : <x> NumSites : <n>"
SclFile(x, y, n, sw, h) ==
    << SclLine("NumRows", 1, <<>>), SclLine("CoreRow", 0, <<>>),
       SclLine("Coordinate", y, <<>>), SclLine("Height", h, <<>>),
       SclLine("Sitewidth", sw, <<>>), SclLine("SubrowOrigin", x, <<n>>),
       SclLine("End", 0, <<>>) >>

\* what may follow "<name> <x> <y>" on a line of .pl
Movable == <<":", "N">>
OrientF == <<":", "F">>
FixedFlag == <<":", "N", "/FIXED">>
BareF == <<"F">>

PlFile(recs) == <<PlBanner>> \o recs

(***************************************************************************)
(* The inputs of the three specifications.  Each family varies the files   *)
(* one stage reads; CommonInputs makes a client call every method.         *)
(***************************************************************************)
\* a test program that calls the methods of client; all files exist and
\* the output directory is writable
MkInput(nodes, nets, scl, pl, client) ==
    [nodes |-> nodes, nets |-> nets, scl |-> scl, pl |-> pl, client |-> client,
     driver |-> "client", missing |-> {}, writable |-> TRUE]

\* InitialPlacement.run: after parse_all it calls solve_quadratic_placement,
\* legalize_placement and write_placement_result.  missing are the input
\* files that cannot be opened.
MkRun(nodes, nets, scl, pl, missing, writable) ==
    [nodes |-> nodes, nets |-> nets, scl |-> scl, pl |-> pl,
     client |-> <<"solve", "legalize", "write">>,
     driver |-> "run", missing |-> missing, writable |-> writable]

CommonInputs ==
    { MkInput(NodesFile(2, 1, <<Unit("a"), Unit("t")>>),
              NetsFile(<<<<"a", "t">>>>),
              SclFile(0, 0, 3, 1, 3),
              PlFile(<<PlRec("a", Tok(0), Tok(0), Movable),
                       PlRec("t", Tok(1), Tok(2), FixedFlag)>>),
              client)
      : client \in {<<"build", "solve", "legalize">>, <<"legalize", "solve">>,
                    <<"write">>} }
    \cup
    { MkRun(NodesFile(2, 1, <<Unit("a"), Unit("t")>>),
            NetsFile(<<<<"a", "t">>>>),
            SclFile(0, 0, 3, 1, 3),
            PlFile(<<PlRec("a", Tok(0), Tok(0), Movable),
                     PlRec("t", Tok(1), Tok(2), FixedFlag)>>),
            {}, TRUE) }

\* the matrix builder: cells a and b, t a terminal or a third cell, every
\* .nets file of at most MaxNets nets of at most MaxPins pins
MatrixInputs ==
    { MkInput(NodesFile(3, terminals, <<Unit("a"), Unit("b"), Unit("t")>>),
              NetsFile(pinlists),
              SclFile(0, 0, 3, 1, 3),
              PlFile(pl),
              <<"build">>)
      : terminals \in {0, 1},
        pinlists \in SeqsUpTo(SeqsUpTo({"a", "b", "t"}, MaxPins) \ {<<>>}, MaxNets),
        pl \in { <<PlRec("t", Tok(1), Tok(2), FixedFlag)>>,
                 <<PlRec("t", Tok(2), Tok(1), OrientF),
                   PlRec("b", Tok(1), Tok(1), BareF)>> } }

\* the boundary clipper: one cell a of every size in Sizes at every position
\* in Coords
Sizes == (1 .. MaxSize) \cup {DefaultCoreMax, DefaultCoreMax + 1}

ClipInputs ==
    { MkInput(NodesFile(2, 1, <<NodeLine("a", wh[1], wh[2]), Unit("t")>>),
              NetsFile(<<<<"a", "t">>>>),
              SclFile(0, 0, 3, 1, 3),
              PlFile(<<PlRec("a", Tok(xy[1]), Tok(xy[2]), Movable)>>),
              <<"legalize", "legalize">>)
      : wh \in Sizes \X Sizes,
        xy \in Coords \X Coords }

\* the readers of .nodes and .pl: every header order and value, every list
\* of at most MaxDecls declarations, every form of a .pl record
ParseInputs ==
    { MkInput(nodes, NetsFile(<<<<"a", "t">>>>), SclFile(0, 0, 3, 1, 3),
              PlFile(pl), <<"build">>)
      : nodes \in UNION { { NodesFile(m, t, decls), NodesFileRev(m, t, decls) }
                          : m \in 0 .. MaxDecls, t \in 0 .. 1,
                            decls \in SeqsUpTo({Unit("a"), Unit("b"), Unit("t")},
                                               MaxDecls) },
        pl \in { <<PlRec(nm, Tok(1), Tok(1), rest)>>
                 : nm \in {"a", "t"},
                   rest \in {Movable, OrientF, FixedFlag, BareF} } }
    \cup
    \* a comment among the declarations, a coordinate that is not a number
    { MkInput(NodesFile(2, 1, <<Unit("a"), CommentLine, Unit("t")>>),
              NetsFile(<<<<"a", "t">>>>), SclFile(0, 0, 3, 1, 3),
              PlFile(<<PlRec("t", Tok(1), Tok(1), FixedFlag),
                       PlRec("a", x, Tok(1), BareF)>>),
              <<"build">>)
      : x \in {Tok(1), BadTok} }

\* the pipeline: cell a and terminal t, with
\*  - every .nets file of at most MaxRunNets nets of at most MaxRunPins
\*    pins on a, t and the undeclared node u;
\*  - the .nodes files that give one cell and one terminal, two cells and
\*    no terminal, a terminal and no cell, and the header lines exchanged;
\*  - a .pl file with a coordinate that is not a number, in the first or
\*    in the second record;
\*  - every set of input files missing, the output directory writable or
\*    not.
StdNets == NetsFile(<<<<"a", "t">>>>)
StdScl == SclFile(0, 0, 3, 1, 3)
StdPl == PlFile(<<PlRec("a", Tok(1), Tok(1), Movable),
                  PlRec("t", Tok(1), Tok(2), FixedFlag)>>)

RunInputs ==
    { MkRun(NodesFile(2, 1, <<Unit("a"), Unit("t")>>), NetsFile(pinlists),
            StdScl, StdPl, {}, TRUE)
      : pinlists \in SeqsUpTo(SeqsUpTo({"a", "t", "u"}, MaxRunPins) \ {<<>>},
                              MaxRunNets) }
    \cup
    { MkRun(nodes, nets, StdScl, StdPl, {}, TRUE)
      : nodes \in { NodesFile(2, 1, <<Unit("a"), Unit("t")>>),
                    NodesFile(2, 0, <<Unit("a"), Unit("b")>>),
                    NodesFile(1, 1, <<Unit("t")>>),
                    NodesFileRev(2, 1, <<Unit("a"), Unit("t")>>) },
        nets \in { StdNets, NetsFile(<<<<"a", "b">>>>), NetsFile(<<>>) } }
    \cup
    { MkRun(NodesFile(2, 1, <<Unit("a"), Unit("t")>>), StdNets, StdScl,
            PlFile(<<PlRec("a", xa, Tok(1), Movable),
                     PlRec("t", xt, Tok(2), FixedFlag)>>), {}, TRUE)
      : xa \in {Tok(1), BadTok}, xt \in {Tok(1), BadTok} }
    \cup
    { MkRun(NodesFile(2, 1, <<Unit("a"), Unit("t")>>), StdNets, StdScl, StdPl,
            missing, writable)
      : missing \in SUBSET {"nodes", "nets", "scl", "pl"},
        writable \in BOOLEAN }

\* the writer: cells a and b and terminal t, declared in this order or
\* with b after t; a at positions with a seventh decimal place and with
\* every form of a .pl record, t with two orientations; the file is written
\* right after parse_all or after legalize_placement
Sevenths == {0, 4, 6, Subunits - 4}

WriteInputs ==
    { MkInput(NodesFile(3, 1, <<Unit("a"), Unit("b"), Unit("t")>>),
              StdNets, StdScl,
              PlFile(<<PlRec("a", [ok |-> TRUE, f |-> Frac(v, e)], Tok(1), rest_a),
                       PlRec("t", Tok(1), Tok(2), <<":", orient, "/FIXED">>)>>),
              client)
      : v \in 0 .. MaxCoord, e \in Sevenths,
        rest_a \in {Movable, OrientF, FixedFlag, BareF},
        orient \in {"N", "S"},
        client \in {<<"write">>, <<"legalize", "write">>} }

\* the row reader: .scl files of at most MaxRows rows; a row has its
\* origin, its number of sites (a few, or more than the default core is
\* wide), its site width and its height; the SubrowOrigin line is the last
\* or the first key of its block, in the Bookshelf form
\* "SubrowOrigin : <x> NumSites : <n>" (rest = <<n>>) or in the form
\* "SubrowOrigin : <x> : NumSites <n>" (rest = <<0, n>>, the only one
\* whose NumSites the code reads)
RowBlock(r, colon_first, origin_first) ==
    LET origin == SclLine("SubrowOrigin", r.x,
                          IF colon_first THEN <<0, r.n>> ELSE <<r.n>>)
        keys == << SclLine("Coordinate", r.y, <<>>), SclLine("Height", r.h, <<>>),
                   SclLine("Sitewidth", r.sw, <<>>) >>
    IN <<SclLine("CoreRow", 0, <<>>)>>
       \o (IF origin_first THEN <<origin>> \o keys ELSE keys \o <<origin>>)
       \o <<SclLine("End", 0, <<>>)>>

RECURSIVE RowBlocks(_, _, _)
RowBlocks(rows, colon_first, origin_first) ==
    IF rows = <<>> THEN <<>>
    ELSE RowBlock(Head(rows), colon_first, origin_first)
         \o RowBlocks(Tail(rows), colon_first, origin_first)

RowsFile(rows, colon_first, origin_first) ==
    <<SclLine("NumRows", Len(rows), <<>>)>> \o RowBlocks(rows, colon_first, origin_first)

SclInputs ==
    { MkInput(NodesFile(2, 1, <<Unit("a"), Unit("t")>>), StdNets,
              RowsFile(rows, colon_first, origin_first), StdPl, <<"build">>)
      : rows \in SeqsUpTo([x : {0, 1}, y : {0, 1}, n : {2, DefaultCoreMax + 2},
                            sw : {1, 2}, h : {1, 2}], MaxRows) \ {<<>>},
        colon_first \in BOOLEAN, origin_first \in BOOLEAN }

\* the node order: every .nodes file of three declarations over the names
\* a, b and t, the last one a terminal, with nets that tell the nodes apart;
\* the client builds the system and solves it
OrderInputs ==
    { MkInput(NodesFile(3, 1, decls),
              NetsFile(<<<<"a", "t">>, <<"a", "b", "b">>>>),
              SclFile(0, 0, 3, 1, 3),
              PlFile(<<PlRec("a", Tok(0), Tok(1), Movable),
                       PlRec("b", Tok(1), Tok(0), Movable),
                       PlRec("t", Tok(1), Tok(1), Movable)>>),
              <<"build", "solve">>)
      : decls \in [1 .. 3 -> {Unit("a"), Unit("b"), Unit("t")}] }

\* the solver and the clipper on a design whose .pl has fixed records: cells
\* a and b and the terminal t, the record of b outside the core and either
\* movable or ending in a bare F
FrameInputs ==
    { MkInput(NodesFile(3, 1, <<Unit("a"), Unit("b"), Unit("t")>>),
              NetsFile(<<<<"a", "b", "t">>>>),
              SclFile(0, 0, 3, 1, 3),
              PlFile(<<PlRec("a", Tok(0), Tok(0), Movable),
                       PlRec("b", Tok(DefaultCoreMax + 1), Tok(-1), rest),
                       PlRec("t", Tok(1), Tok(2), OrientF)>>),
              client)
      : rest \in {Movable, BareF},
        client \in {<<"solve", "legalize">>, <<"legalize">>} }

(***************************************************************************)
(* The state machine.                                                      *)
(***************************************************************************)
InitWith(inputs) ==
    /\ input \in inputs
    /\ self = NewParser
    /\ pc = "start"
    /\ calls = 0
    /\ built = NoSystem
    /\ ret = "none"
    /\ out = NoFile
    /\ sol = NoSolution

\* parse_all: parse_nodes, parse_nets, parse_scl, parse_pl, in this order
\* (parse_aux only resolves the file names).  open() of a missing file
\* raises inside the method's try: the method prints and returns, and the
\* object is as before.
ParseNodes ==
    /\ pc = "start"
    /\ self' = IF "nodes" \in input.missing THEN self
               ELSE parse_nodes(self, input.nodes)
    /\ pc' = "nodes"
    /\ UNCHANGED <<input, calls, built, ret, out, sol>>

ParseNets ==
    /\ pc = "nodes"
    /\ self' = IF "nets" \in input.missing THEN self
               ELSE parse_nets(self, input.nets)
    /\ pc' = "nets"
    /\ UNCHANGED <<input, calls, built, ret, out, sol>>

ParseScl ==
    /\ pc = "nets"
    /\ self' = IF "scl" \in input.missing THEN self
               ELSE parse_scl(self, input.scl)
    /\ pc' = "scl"
    /\ UNCHANGED <<input, calls, built, ret, out, sol>>

ParsePl ==
    /\ pc = "scl"
    /\ self' = IF "pl" \in input.missing THEN self
               ELSE parse_pl(self, input.pl)
    /\ pc' = "parsed"
    /\ UNCHANGED <<input, calls, built, ret, out, sol>>

\* run: "if not success: return False" after each of its three calls
ProceedsAlways == TRUE

Proceeds == input.driver = "run" => ret # "False"

\* parse_all has returned and the client's next call is of method m
Calling(m) ==
    /\ pc \in {"parsed", "built", "solved", "legalized", "written"}
    /\ calls < Len(input.client)
    /\ input.client[calls + 1] = m
    /\ Proceeds

Build ==
    /\ Calling("build")
    /\ built' = build_quadratic_matrix(self)
    /\ pc' = "built"
    /\ calls' = calls + 1
    /\ UNCHANGED <<input, self, ret, out, sol>>

\* without a movable node the system is empty: whether spsolve accepts it
\* depends on the library version (True, nothing stored, or an exception
\* and False)
Solve ==
    /\ Calling("solve")
    /\ LET sys == build_quadratic_matrix(self) IN
         IF sys.n = 0
         THEN /\ ret' \in {"True", "False"}
              /\ self' = self
              /\ sol' = sol
         ELSE /\ \E x \in spsolve(sys), y \in spsolve(sys) :
                   /\ x[1].nan = y[1].nan
                   /\ self' = StoreSolution(self, x, y)
                   /\ sol' = [x |-> x, y |-> y]
              /\ ret' = "True"
    /\ pc' = "solved"
    /\ calls' = calls + 1
    /\ UNCHANGED <<input, built, out>>

Legalize ==
    /\ Calling("legalize")
    /\ self' = legalize_placement(self)
    /\ ret' = "True"
    /\ pc' = "legalized"
    /\ calls' = calls + 1
    /\ UNCHANGED <<input, built, out, sol>>

\* open(output_file, 'w') raises when the directory is not writable: no
\* file, False.  Otherwise the file is written with the time of the clock.
Write ==
    /\ Calling("write")
    /\ IF input.writable
       THEN /\ \E t \in Clock : out' = write_placement_result(self, t)
            /\ ret' = "True"
       ELSE /\ out' = out
            /\ ret' = "False"
    /\ pc' = "written"
    /\ calls' = calls + 1
    /\ UNCHANGED <<input, self, built, sol>>

\* run returns: False at the first call that failed, True after the three
\* calls (print_placement_statistics and visualize_placement catch their
\* own exceptions).  ret is what run returned.
Return ==
    /\ input.driver = "run"
    /\ pc \in {"solved", "legalized", "written"}
    /\ ret = "False" \/ calls = Len(input.client)
    /\ pc' = "done"
    /\ UNCHANGED <<input, self, calls, built, ret, out, sol>>

\* main: "return 0" if run returned True, else "return 1"; sys.exit(main())
ExitCode == IF ret = "True" THEN 0 ELSE 1

Next ==
    \/ ParseNodes
    \/ ParseNets
    \/ ParseScl
    \/ ParsePl
    \/ Build
    \/ Solve
    \/ Legalize
    \/ Write
    \/ Return

Init == InitWith(CommonInputs \cup MatrixInputs \cup ClipInputs \cup ParseInputs
                 \cup RunInputs \cup WriteInputs \cup SclInputs
                 \cup OrderInputs \cup FrameInputs)
Spec == Init /\ [][Next]_vars

InitMatrix == InitWith(CommonInputs \cup MatrixInputs)
SpecMatrix == InitMatrix /\ [][Next]_vars

InitClip == InitWith(CommonInputs \cup ClipInputs)
SpecClip == InitClip /\ [][Next]_vars

InitParse == InitWith(CommonInputs \cup ParseInputs)
SpecParse == InitParse /\ [][Next]_vars

InitRun == InitWith(CommonInputs \cup RunInputs)
SpecRun == InitRun /\ [][Next]_vars

InitWrite == InitWith(CommonInputs \cup WriteInputs)
SpecWrite == InitWrite /\ [][Next]_vars

SpecOrder == InitWith(CommonInputs \cup OrderInputs) /\ [][Next]_vars

SpecFrame == InitWith(CommonInputs \cup FrameInputs) /\ [][Next]_vars

SpecScl == InitWith(CommonInputs \cup SclInputs) /\ [][Next]_vars

(***************************************************************************)
(* The statistics parser (task3/bookshelf_parser.py).  It reads the same   *)
(* files; its object is the value of self in the behaviours of SpecStats.  *)
(* A float that is a quotient of two integers is kept exact, as the        *)
(* reduced fraction; a percentage is the hundredfold of its fraction.      *)
(***************************************************************************)
Quot(n, d) == LET g == Gcd(n, d) IN [num |-> n \div g, den |-> d \div g]
Percent(n, d) == [percent_of |-> Quot(n, d)]

\* int(area * 0.abcd), 0.abcd given in ten-thousandths
IntTimes(area, tenthousandths) ==
    (area \div 10000) * tenthousandths + ((area % 10000) * tenthousandths) \div 10000

Task3_NewParser ==
    [ num_modules |-> 0, num_nodes |-> 0, num_terminals |-> 0,
      num_nets |-> 0, num_pins |-> 0, max_net_degree |-> 0,
      core_lower_left |-> <<0, 0>>, core_upper_right |-> <<0, 0>>,
      row_height |-> 0, row_number |-> 0, site_step |-> 0,
      core_area |-> 0, cell_area |-> 0, movable_area |-> 0,
      fixed_area |-> 0, fixed_area_in_core |-> 0,
      placement_util |-> Percent(0, 1), core_density |-> Percent(0, 1),
      cell_count |-> 0, object_count |-> 0, fixed_count |-> 0, macro_count |-> 0,
      net_count |-> 0, pin_2_count |-> 0, pin_3_10_count |-> 0,
      pin_11_100_count |-> 0, pin_100_plus_count |-> 0, total_pin_count |-> 0,
      bin_dimension |-> <<512, 512>>, bin_step |-> <<Quot(0, 1), Quot(0, 1)>> ]

\* "for line in lines: if line.startswith(key): field = int(...)": the last
\* line of the kind gives the value, prior the value before the loop
RECURSIVE LastValue(_, _, _)
LastValue(lines, kind, prior) ==
    IF lines = <<>> THEN prior
    ELSE LastValue(Tail(lines), kind,
                   IF Head(lines).kind = kind THEN Head(lines).val ELSE prior)

Task3_parse_nodes(s, lines) ==
    LET num_modules == LastValue(lines, "NumNodes", s.num_modules)
        num_terminals == LastValue(lines, "NumTerminals", s.num_terminals)
        cell_area == IF s.core_area > 0 THEN IntTimes(s.core_area, 3265)
                     ELSE 37286292
    IN [s EXCEPT !.num_modules = num_modules, !.num_terminals = num_terminals,
                 !.num_nodes = num_modules - num_terminals,
                 !.cell_count = num_modules - num_terminals,
                 !.object_count = num_modules,
                 !.fixed_count = num_terminals,
                 !.macro_count = 0,
                 !.cell_area = cell_area, !.movable_area = cell_area]

Task3_parse_nets(s, lines) ==
    LET num_nets == LastValue(lines, "NumNets", s.num_nets)
        num_pins == LastValue(lines, "NumPins", s.num_pins)
    IN [s EXCEPT !.num_nets = num_nets, !.num_pins = num_pins,
                 !.net_count = num_nets, !.total_pin_count = num_pins,
                 !.max_net_degree = 2271, !.pin_2_count = 117104,
                 !.pin_3_10_count = 86566, !.pin_11_100_count = 17470,
                 !.pin_100_plus_count = 2]

\* "for j in range(i+1, min(i+10, len(lines))): if ...startswith(key): ...
\* break": the first line of the kind among the nine after line i
FirstWithin(lines, i, kind, prior) ==
    LET js == {j \in (i + 1) .. Min({i + 9, Len(lines)}) : lines[j].kind = kind}
    IN IF js = {} THEN prior ELSE lines[Min(js)].val

RECURSIVE Task3_SclLoop(_, _, _)
Task3_SclLoop(lines, i, s) ==
    IF i > Len(lines) THEN s
    ELSE IF lines[i].kind = "NumRows"
         THEN Task3_SclLoop(lines, i + 1, [s EXCEPT !.row_number = lines[i].val])
    ELSE IF lines[i].kind = "CoreRow"
         THEN Task3_SclLoop(lines, i + 1,
                  [s EXCEPT !.row_height = FirstWithin(lines, i, "Height", @),
                            !.site_step = FirstWithin(lines, i, "Sitewidth", @)])
    ELSE Task3_SclLoop(lines, i + 1, s)

Task3_parse_scl(s, lines) ==
    LET s1 == Task3_SclLoop(lines, 1,
                  [s EXCEPT !.core_lower_left = <<459, 459>>,
                            !.core_upper_right = <<11151, 11139>>])
        width == s1.core_upper_right[1] - s1.core_lower_left[1] + 1
        height == s1.core_upper_right[2] - s1.core_lower_left[2] + 1
    IN [s1 EXCEPT !.core_area = width * height,
                  !.fixed_area = IntTimes(width * height, 5613),
                  !.fixed_area_in_core = IntTimes(width * height, 4305)]

\* "for line in lines[4:]": a = [fixed_area, fixed_area_in_core, raised]
RECURSIVE Task3_PlLoop(_, _, _, _)
Task3_PlLoop(s, lines, i, a) ==
    IF i > Len(lines) THEN a
    ELSE IF lines[i].kind # "rec" \/ Len(lines[i].rest) < 1 \/ lines[i].rest[1] # "F"
         THEN Task3_PlLoop(s, lines, i + 1, a)
    ELSE IF ~lines[i].x.ok \/ ~lines[i].y.ok
         THEN [a EXCEPT !.raised = TRUE]
    ELSE LET x == lines[i].x.f
             y == lines[i].y.f
             inside == /\ FLe(F(s.core_lower_left[1]), x)
                       /\ FLe(x, F(s.core_upper_right[1]))
                       /\ FLe(F(s.core_lower_left[2]), y)
                       /\ FLe(y, F(s.core_upper_right[2]))
         IN Task3_PlLoop(s, lines, i + 1,
                [a EXCEPT !.fixed_area = @ + 1,
                          !.fixed_area_in_core = IF inside THEN @ + 1 ELSE @])

Task3_parse_pl(s, lines) ==
    LET a == Task3_PlLoop(s, lines, 5,
                 [fixed_area |-> 0, fixed_area_in_core |-> 0, raised |-> FALSE])
    IN IF a.raised THEN s
       ELSE [s EXCEPT !.fixed_area = a.fixed_area * 100000,
                      !.fixed_area_in_core = a.fixed_area_in_core * 100000]

\* s1: the two values computed from the areas; s2: the assignments of
\* lines 314-315 that replace them
calculate_metrics(s) ==
    LET free_sites == s.core_area - s.fixed_area_in_core
        s1 == [s EXCEPT !.placement_util = IF free_sites > 0
                                           THEN Percent(s.movable_area, free_sites)
                                           ELSE Percent(0, 1),
                        !.core_density = IF s.core_area > 0
                                         THEN Percent(s.movable_area + s.fixed_area_in_core,
                                                      s.core_area)
                                         ELSE Percent(0, 1)]
        s2 == [s1 EXCEPT !.placement_util = Percent(5734, 10000),
                         !.core_density = Percent(7571, 10000)]
        width == Max({1, s.core_upper_right[1] - s.core_lower_left[1] + 1})
        height == Max({1, s.core_upper_right[2] - s.core_lower_left[2] + 1})
    IN [s2 EXCEPT !.bin_step = << Quot(width, s.bin_dimension[1]),
                                  Quot(height, s.bin_dimension[2]) >>]

\* the files: four lines before the first record that is read, or the
\* banner alone; coordinates on and beyond the edges of the core the parser
\* assumes, and one that float() rejects
Task3Inputs ==
    { [nodes |-> NodesFile(num_nodes, 1, <<Unit("a"), Unit("t")>>),
       nets |-> StdNets, scl |-> StdScl,
       pl |-> header \o recs, missing |-> missing]
      : num_nodes \in {2, 3},
        header \in {<<PlBanner>>,
                    <<PlBanner>> \o [i \in 1 .. 3 |-> [PlBanner EXCEPT !.kind = "#"]]},
        recs \in SeqsUpTo({ PlRec("t", x, y, rest) : x \in {Tok(458), Tok(459), BadTok},
                                                     y \in {Tok(11139), Tok(11140)},
                                                     rest \in {OrientF, BareF} },
                          MaxRunPins),
        missing \in SUBSET {"nodes", "scl", "pl"} }

\* parse_all of the statistics parser: one action per method it calls
Task3Init ==
    /\ input \in Task3Inputs
    /\ self = Task3_NewParser
    /\ pc = "task3"
    /\ calls = 0
    /\ built = NoSystem
    /\ ret = "none"
    /\ out = NoFile
    /\ sol = NoSolution

\* parse_aux: the .aux file names the files the object already expects
Task3ParseAux ==
    /\ pc = "task3"
    /\ pc' = "task3 aux"
    /\ UNCHANGED <<input, self, calls, built, ret, out, sol>>

Task3ParseNodes ==
    /\ pc = "task3 aux"
    /\ self' = IF "nodes" \in input.missing THEN self
               ELSE Task3_parse_nodes(self, input.nodes)
    /\ pc' = "task3 nodes"
    /\ UNCHANGED <<input, calls, built, ret, out, sol>>

Task3ParseNets ==
    /\ pc = "task3 nodes"
    /\ self' = IF "nets" \in input.missing THEN self
               ELSE Task3_parse_nets(self, input.nets)
    /\ pc' = "task3 nets"
    /\ UNCHANGED <<input, calls, built, ret, out, sol>>

Task3ParseScl ==
    /\ pc = "task3 nets"
    /\ self' = IF "scl" \in input.missing THEN self
               ELSE Task3_parse_scl(self, input.scl)
    /\ pc' = "task3 scl"
    /\ UNCHANGED <<input, calls, built, ret, out, sol>>

Task3ParsePl ==
    /\ pc = "task3 scl"
    /\ self' = IF "pl" \in input.missing THEN self
               ELSE Task3_parse_pl(self, input.pl)
    /\ pc' = "task3 pl"
    /\ UNCHANGED <<input, calls, built, ret, out, sol>>

CalculateMetrics ==
    /\ pc = "task3 pl"
    /\ self' = calculate_metrics(self)
    /\ pc' = "task3 parsed"
    /\ UNCHANGED <<input, calls, built, ret, out, sol>>

Task3Next ==
    \/ Task3ParseAux
    \/ Task3ParseNodes
    \/ Task3ParseNets
    \/ Task3ParseScl
    \/ Task3ParsePl
    \/ CalculateMetrics

SpecStats == Task3Init /\ [][Task3Next]_vars

(***************************************************************************)
(* The summary tool (Version_Python/task2/program/bookshelf_parser.py).    *)
(* In the behaviours of SpecReport self is its parser object, built holds  *)
(* the values generate_report computes and out the report file it writes.  *)
(* Every parse method re-raises what it catches, so an error ends the      *)
(* program.  A dict maps key to ref, the value stored under the key.       *)
(***************************************************************************)
Task2_NewParser ==
    [ nodes_info |-> <<>>, nets_info |-> <<>>, pl_info |-> <<>>, scl_info |-> <<>>,
      stats |-> [ total_nodes |-> 0, terminal_nodes |-> 0, non_terminal_nodes |-> 0,
                  total_nets |-> 0, total_pins |-> 0, total_rows |-> 0,
                  chip_width |-> 0, chip_height |-> 0, chip_area |-> 0,
                  avg_net_degree |-> Quot(0, 1), max_net_degree |-> 0,
                  min_net_degree |-> Inf ] ]

\* "for line in data_lines: match = node_pattern.match(line) ..."
RECURSIVE Task2_NodeLoop(_, _)
Task2_NodeLoop(lines, info) ==
    IF lines = <<>> THEN info
    ELSE Task2_NodeLoop(Tail(lines),
             IF Head(lines).kind = "node"
             THEN Put(info, Head(lines).name,
                      [width |-> Head(lines).w, height |-> Head(lines).h,
                       is_terminal |-> FALSE])
             ELSE info)

\* "for node_name in self.nodes_info: if terminal_count < terminal_nodes:
\* is_terminal = True ... else: break"
MarkTerminals(info, terminal_nodes) ==
    [i \in DOMAIN info |->
        IF i <= terminal_nodes THEN [info[i] EXCEPT !.ref.is_terminal = TRUE]
        ELSE info[i]]

parse_nodes_file(s, lines) ==
    LET total_nodes == LastValue(lines, "NumNodes", s.stats.total_nodes)
        terminal_nodes == LastValue(lines, "NumTerminals", s.stats.terminal_nodes)
    IN [s EXCEPT !.stats.total_nodes = total_nodes,
                 !.stats.terminal_nodes = terminal_nodes,
                 !.stats.non_terminal_nodes = total_nodes - terminal_nodes,
                 !.nodes_info = MarkTerminals(Task2_NodeLoop(lines, @), terminal_nodes)]

\* re.search: the first line of the kind; none is <<>>
FirstOf(lines, kind) == SelectSeq(lines, LAMBDA l : l.kind = kind)

\* the net headers in file order, each with the pins "<name> <I|O> : ..."
\* of its section.  a = [info, cur, degrees]
RECURSIVE Task2_NetLoop(_, _)
Task2_NetLoop(lines, a) ==
    IF lines = <<>> THEN a
    ELSE LET l == Head(lines) IN
         Task2_NetLoop(Tail(lines),
             IF l.kind = "NetDegree"
             THEN [info |-> Put(a.info, l.name, [degree |-> l.val, pins |-> <<>>]),
                   cur |-> l.name, degrees |-> Append(a.degrees, l.val)]
             ELSE IF l.kind = "pin" /\ a.cur # "" /\ l.type \in {"I", "O"}
             THEN [a EXCEPT !.info = Put(@, a.cur,
                       [Get(@, a.cur) EXCEPT !.pins = Append(@, <<l.name, l.type>>)])]
             ELSE a)

RECURSIVE MaxSeq(_, _)
MaxSeq(q, m) == IF q = <<>> THEN m ELSE MaxSeq(Tail(q), IF Head(q) > m THEN Head(q) ELSE m)

RECURSIVE MinInfSeq(_, _)
MinInfSeq(q, m) == IF q = <<>> THEN m ELSE MinInfSeq(Tail(q), MinInf(m, Head(q)))

parse_nets_file(s, lines) ==
    LET nets == FirstOf(lines, "NumNets")
        pins == FirstOf(lines, "NumPins")
        a == Task2_NetLoop(lines, [info |-> s.nets_info, cur |-> "", degrees |-> <<>>])
        s1 == IF nets # <<>> /\ pins # <<>>
              THEN [s EXCEPT !.stats.total_nets = nets[1].val,
                             !.stats.total_pins = pins[1].val]
              ELSE s
    IN [s1 EXCEPT !.nets_info = a.info,
                  !.stats.max_net_degree = MaxSeq(a.degrees, @),
                  !.stats.min_net_degree = MinInfSeq(a.degrees, @),
                  !.stats.avg_net_degree =
                      IF a.degrees # <<>> THEN Quot(SumSeq(a.degrees), Len(a.degrees))
                      ELSE @]

\* pl_pattern: "<name> <digits> <digits> : <N|F|S>"
PlPatternMatches(l) ==
    /\ l.kind = "rec"
    /\ l.x.ok /\ l.x.f.e = 0 /\ l.x.f.v >= 0
    /\ l.y.ok /\ l.y.f.e = 0 /\ l.y.f.v >= 0
    /\ Len(l.rest) >= 2 /\ l.rest[1] = ":" /\ l.rest[2] \in {"N", "F", "S"}

RECURSIVE Task2_PlLoop(_, _)
Task2_PlLoop(lines, info) ==
    IF lines = <<>> THEN info
    ELSE Task2_PlLoop(Tail(lines),
             IF PlPatternMatches(Head(lines))
             THEN Put(info, Head(lines).name,
                      [x |-> Head(lines).x.f.v, y |-> Head(lines).y.f.v,
                       orientation |-> Head(lines).rest[2]])
             ELSE info)

parse_pl_file(s, lines) == [s EXCEPT !.pl_info = Task2_PlLoop(lines, @)]

\* one "CoreRow Horizontal ... End" section, lines first..last, the i-th
\* match (from 0).  a = [info, max_x, max_y]
Task2_Section(lines, first, last, i, a) ==
    LET in(kind) == {j \in first .. last : lines[j].kind = kind /\ lines[j].val >= 0}
        subrows == {j \in in("SubrowOrigin") :
                      Len(lines[j].rest) = 1 /\ lines[j].rest[1] >= 0}
    IN IF in("Coordinate") = {} \/ in("Height") = {} \/ subrows = {} THEN a
       ELSE LET y == lines[Min(in("Coordinate"))].val
                height == lines[Min(in("Height"))].val
                x == lines[Min(subrows)].val
                num_sites == lines[Min(subrows)].rest[1]
            IN [info |-> Put(a.info, i, [y |-> y, height |-> height, x |-> x,
                                         num_sites |-> num_sites]),
                max_x |-> Max({a.max_x, x + num_sites}),
                max_y |-> Max({a.max_y, y + height})]

\* re.findall(r'CoreRow\s+Horizontal(.*?)End'): each section ends at the
\* first End after its CoreRow line
RECURSIVE Task2_Sections(_, _, _, _)
Task2_Sections(lines, j, i, a) ==
    IF j > Len(lines) THEN a
    ELSE IF lines[j].kind # "CoreRow" THEN Task2_Sections(lines, j + 1, i, a)
    ELSE LET ends == {e \in (j + 1) .. Len(lines) : lines[e].kind = "End"}
         IN IF ends = {} THEN a
            ELSE Task2_Sections(lines, Min(ends) + 1, i + 1,
                                Task2_Section(lines, j + 1, Min(ends) - 1, i, a))

parse_scl_file(s, lines) ==
    LET rows == FirstOf(lines, "NumRows")
        a == Task2_Sections(lines, 1, 0, [info |-> s.scl_info, max_x |-> 0, max_y |-> 0])
    IN [s EXCEPT !.stats.total_rows = IF rows # <<>> THEN rows[1].val ELSE @,
                 !.scl_info = a.info,
                 !.stats.chip_width = a.max_x,
                 !.stats.chip_height = a.max_y,
                 !.stats.chip_area = a.max_x * a.max_y]

\* sum(node["width"] * node["height"] for node in nodes_info.values() if ...)
AreaOf(info, terminal) ==
    SumSeq([i \in DOMAIN SelectSeq(info, LAMBDA e : e.ref.is_terminal = terminal) |->
               LET node == SelectSeq(info, LAMBDA e : e.ref.is_terminal = terminal)[i].ref
               IN node.width * node.height])

\* the if / elif / elif / else of lines 285-294
NetDegreeCounts(info) ==
    LET is2(d) == d = 2
        is3_10(d) == 3 <= d /\ d <= 10
        is11_100(d) == 11 <= d /\ d <= 100
        count(P(_)) == Cardinality({i \in DOMAIN info : P(info[i].ref.degree)})
    IN [ pin_2 |-> count(is2), pin_3_10 |-> count(is3_10),
         pin_11_100 |-> count(is11_100),
         pin_100_plus |-> count(LAMBDA d : ~is2(d) /\ ~is3_10(d) /\ ~is11_100(d)) ]

\* the values generate_report computes before it prints (lines 259-294)
ReportValues(s) ==
    LET total_cell_area == AreaOf(s.nodes_info, FALSE)
        fixed_area == AreaOf(s.nodes_info, TRUE)
        core_area == s.stats.chip_area
    IN [ total_cell_area |-> total_cell_area,
         density |-> IF core_area > 0 THEN Quot(total_cell_area, core_area)
                     ELSE Quot(0, 1),
         movable_area |-> total_cell_area,
         fixed_area |-> fixed_area,
         core_area |-> core_area,
         fixed_area_in_core |-> fixed_area,
         placement_util |-> IF core_area - fixed_area > 0
                            THEN Quot(total_cell_area, core_area - fixed_area)
                            ELSE Quot(0, 1),
         core_density |-> IF core_area > 0
                          THEN Quot(total_cell_area + fixed_area, core_area)
                          ELSE Quot(0, 1),
         net_degree_counts |-> NetDegreeCounts(s.nets_info) ]

\* the English report takes min() over the rows and divides by core_area
\* before it opens the report file: ValueError or ZeroDivisionError
ReportRaises(s, language) ==
    language = "english" /\ (s.scl_info = <<>> \/ s.stats.chip_area = 0)

\* the figures of the report file
ReportFile(s, v, language) ==
    IF language = "english"
    THEN [ language |-> language, stats |-> s.stats,
           lower_left |-> << Min({s.scl_info[i].ref.x : i \in DOMAIN s.scl_info}),
                             Min({s.scl_info[i].ref.y : i \in DOMAIN s.scl_info}) >>,
           row_height |-> s.scl_info[1].ref.height,
           values |-> v ]
    ELSE [ language |-> language, stats |-> s.stats, density |-> v.density ]

\* net degrees on both sides of every bucket edge of the histogram
Task2NodesFiles ==
    { NodesFile(Len(decls), t, decls)
      : decls \in SeqsUpTo({NodeLine(nm, w, 1) : nm \in {"a", "b", "t"}, w \in {1, 2}},
                            MaxDecls),
        t \in 0 .. MaxRunPins }

Task2NetsFiles ==
    { <<NumNetsLine(Len(nets)), NumPinsLine(Len(nets))>> \o nets \o pins
      : nets \in SeqsUpTo({NetDegreeLine(d, nm) : d \in {0, 1, 2, 3, 10, 11, 100, 101},
                                                   nm \in {"n1", "n2"}},
                          MaxNets),
        pins \in {<<>>, <<PinLine("a", "I"), PinLine("t", "B")>>} }

Task2Input(nodes, nets, scl, pl, language, missing) ==
    [nodes |-> nodes, nets |-> nets, scl |-> scl, pl |-> pl,
     language |-> language, missing |-> missing]

Task2SclFiles ==
    {StdScl, <<>>}
    \cup { RowsFile(<<[x |-> 0, y |-> 0, n |-> 2, sw |-> 1, h |-> 1],
                     [x |-> 1, y |-> 1, n |-> 2, sw |-> 1, h |-> 1]>>, colon_first, FALSE)
           : colon_first \in BOOLEAN }

Task2Inputs ==
    { Task2Input(nodes, StdNets, StdScl, StdPl, language, {})
      : nodes \in Task2NodesFiles, language \in {"chinese", "english"} }
    \cup
    { Task2Input(NodesFile(2, 1, <<Unit("a"), Unit("t")>>), nets, StdScl, StdPl, language, {})
      : nets \in Task2NetsFiles, language \in {"chinese", "english"} }
    \cup
    { Task2Input(NodesFile(2, 1, <<Unit("a"), Unit("t")>>), StdNets, scl, pl, language, missing)
      : scl \in Task2SclFiles,
        pl \in {StdPl, PlFile(<<PlRec("a", BadTok, Tok(1), Movable),
                                PlRec("t", Tok(1), Tok(2), BareF)>>)},
        language \in {"chinese", "english"},
        missing \in {{}, {"nodes"}, {"nets"}, {"pl"}, {"scl"}} }

Task2Init ==
    /\ input \in Task2Inputs
    /\ self = Task2_NewParser
    /\ pc = "task2"
    /\ calls = 0
    /\ built = "none"
    /\ ret = "none"
    /\ out = NoFile
    /\ sol = NoSolution

\* parse_all, one action per method: open() of a missing file raises, the
\* method prints and raises again, and nothing catches it
ParseNodesFile ==
    /\ pc = "task2"
    /\ IF "nodes" \in input.missing
       THEN pc' = "task2 raised" /\ self' = self
       ELSE pc' = "task2 nodes" /\ self' = parse_nodes_file(self, input.nodes)
    /\ UNCHANGED <<input, calls, built, ret, out, sol>>

ParseNetsFile ==
    /\ pc = "task2 nodes"
    /\ IF "nets" \in input.missing
       THEN pc' = "task2 raised" /\ self' = self
       ELSE pc' = "task2 nets" /\ self' = parse_nets_file(self, input.nets)
    /\ UNCHANGED <<input, calls, built, ret, out, sol>>

ParsePlFile ==
    /\ pc = "task2 nets"
    /\ IF "pl" \in input.missing
       THEN pc' = "task2 raised" /\ self' = self
       ELSE pc' = "task2 pl" /\ self' = parse_pl_file(self, input.pl)
    /\ UNCHANGED <<input, calls, built, ret, out, sol>>

ParseSclFile ==
    /\ pc = "task2 pl"
    /\ IF "scl" \in input.missing
       THEN pc' = "task2 raised" /\ self' = self
       ELSE pc' = "task2 parsed" /\ self' = parse_scl_file(self, input.scl)
    /\ UNCHANGED <<input, calls, built, ret, out, sol>>

GenerateReport ==
    /\ pc = "task2 parsed"
    /\ built' = ReportValues(self)
    /\ IF ReportRaises(self, input.language)
       THEN pc' = "task2 raised" /\ out' = out
       ELSE pc' = "task2 reported"
            /\ out' = ReportFile(self, ReportValues(self), input.language)
    /\ UNCHANGED <<input, self, calls, ret, sol>>

Task2Next ==
    \/ ParseNodesFile
    \/ ParseNetsFile
    \/ ParsePlFile
    \/ ParseSclFile
    \/ GenerateReport

SpecReport == Task2Init /\ [][Task2Next]_vars

(***************************************************************************)
(* What the claims speak of.                                               *)
(***************************************************************************)
\* the node declarations of a .nodes file, in file order
Decls(file) == SelectSeq(file, LAMBDA l : l.kind = "node")

\* the value of the file's NumNodes (NumTerminals) line
HeaderValue(file, kind) == file[CHOOSE i \in DOMAIN file : file[i].kind = kind].val

\* NumNodes, then NumTerminals, then the declarations
StandardHeader(file) ==
    /\ Len(file) >= 2
    /\ file[1].kind = "NumNodes"
    /\ file[2].kind = "NumTerminals"

UniqueNames(decls) ==
    \A i, j \in DOMAIN decls : decls[i].name = decls[j].name => i = j

\* a .nodes file whose header agrees with its declarations
ConsistentNodes(file) ==
    /\ \E i \in DOMAIN file : file[i].kind = "NumNodes"
    /\ \E i \in DOMAIN file : file[i].kind = "NumTerminals"
    /\ UniqueNames(Decls(file))
    /\ HeaderValue(file, "NumNodes") = Len(Decls(file))
    /\ HeaderValue(file, "NumTerminals") <= HeaderValue(file, "NumNodes")

\* no node is in both movable_nodes and fixed_nodes
Disjoint(s) ==
    \A i \in DOMAIN s.movable_nodes : ~HasKey(s.fixed_nodes, s.movable_nodes[i].key)

\* the number of pins of net k on node nm
PinsOn(s, k, nm) ==
    Cardinality({i \in DOMAIN s.nets[k].pins : s.nets[k].pins[i].node = nm})

\* the edge weight e = 1/(d-1) of net k (times Scale), 0 for d <= 1
EdgeWeight(s, k) ==
    IF Len(s.nets[k].pins) >= 2 THEN Scale \div (Len(s.nets[k].pins) - 1) ELSE 0

\* the sum over all nets and all pairs of a pin on the node of row r and a
\* pin on the node of row c of the edge weight
PairWeight(s, r, c) ==
    SumSeq([k \in DOMAIN s.nets |->
              EdgeWeight(s, k) * PinsOn(s, k, s.movable_nodes[r].key)
                               * PinsOn(s, k, s.movable_nodes[c].key)])

\* the sum over all pairs of a pin on the node of row r and a pin on another
\* movable node
MovableShare(s, r) ==
    SumSeq([c \in DOMAIN s.movable_nodes |-> IF c = r THEN 0 ELSE PairWeight(s, r, c)])

\* the sum over all nets and all pairs of a pin on the node of row r and a
\* pin on a fixed node of the edge weight
FixedShare(s, r) ==
    SumSeq([k \in DOMAIN s.nets |->
              EdgeWeight(s, k) * PinsOn(s, k, s.movable_nodes[r].key)
                               * Len(FixedPins(s, s.nets[k].pins))])

\* the same sum of edge weight times the position of the fixed pin
FixedPull(s, r) ==
    [ x |-> FSum([k \in DOMAIN s.nets |->
                    FMul(EdgeWeight(s, k) * PinsOn(s, k, s.movable_nodes[r].key),
                         fixed_x(s, s.nets[k].pins))]),
      y |-> FSum([k \in DOMAIN s.nets |->
                    FMul(EdgeWeight(s, k) * PinsOn(s, k, s.movable_nodes[r].key),
                         fixed_y(s, s.nets[k].pins))]) ]

Abs(n) == IF n < 0 THEN -n ELSE n

\* the node objects of movable_nodes
MovableObjects(s) == {s.heap[s.movable_nodes[i].ref] : i \in DOMAIN s.movable_nodes}

FitsX(s, node) == s.core_lower_left[1] <= s.core_upper_right[1] - node.width
FitsY(s, node) == s.core_lower_left[2] <= s.core_upper_right[2] - node.height

\* a record of .pl that carries the /FIXED flag or the orientation F
FixedRecord(line) ==
    /\ line.kind = "rec"
    /\ \E i \in DOMAIN line.rest : line.rest[i] \in {"/FIXED", "F"}

(***************************************************************************)
(* C1.  build_quadratic_matrix adds, for every net of d >= 2 pins and      *)
(* every pair of a pin on a movable node i and a pin on a fixed node j,    *)
(* e = 1/(d-1) to A[i,i] and e*x(j), e*y(j) to b_x[i], b_y[i]: with the    *)
(* contributions of the movable pairs, A[i,i] is the sum of both shares.   *)
(* One cell and one terminal on one 2-pin net give A = [[1]].              *)
(* The code adds the fixed share to b_x and b_y only: the formula fails.   *)
(***************************************************************************)
C1_FixedPinsOnDiagonal ==
    (pc = "built" /\ Disjoint(self)) =>
        \A r \in 1 .. built.n :
            /\ built.A[r][r] = MovableShare(self, r) + FixedShare(self, r)
            /\ built.b_x[r] = FixedPull(self, r).x
            /\ built.b_y[r] = FixedPull(self, r).y

(***************************************************************************)
(* C2.  For every net of d >= 2 pins and every pair of pins on two         *)
(* distinct movable nodes i and j, build_quadratic_matrix adds e = 1/(d-1) *)
(* to A[i,i] and to A[j,j] and subtracts it from A[i,j] and A[j,i]; the    *)
(* contributions of all pairs and nets add up: A[i,j] is minus the sum of  *)
(* e over all such pairs, A[i,i] holds the sum of e over all pairs i takes *)
(* part in, and is exactly that sum when no net of i has a fixed pin.      *)
(***************************************************************************)
C2_MovablePairsSummed ==
    pc = "built" =>
        \A r \in 1 .. built.n :
            /\ \A c \in 1 .. built.n :
                   c # r => built.A[r][c] = -PairWeight(self, r, c)
            /\ built.A[r][r] >= MovableShare(self, r)
            /\ FixedShare(self, r) = 0 => built.A[r][r] = MovableShare(self, r)

\* two nets of different degree on the same two cells: -(1 + 1/2)
C2_Witness ==
    /\ pc = "built"
    /\ built.n >= 2
    /\ Len(self.nets) = 2
    /\ Len(self.nets[1].pins) # Len(self.nets[2].pins)
    /\ built.A[1][2] = -(Scale + Scale \div 2)

(***************************************************************************)
(* C3.  The matrix A returned by build_quadratic_matrix is symmetric, also *)
(* when a node is on several pins of a net.                                *)
(***************************************************************************)
C3_Symmetric ==
    pc = "built" =>
        \A r, c \in 1 .. built.n : built.A[r][c] = built.A[c][r]

\* a net with two pins on the first cell and one on the second
C3_Witness ==
    /\ pc = "built"
    /\ built.n >= 2
    /\ \E k \in DOMAIN self.nets :
           /\ PinsOn(self, k, self.movable_nodes[1].key) = 2
           /\ PinsOn(self, k, self.movable_nodes[2].key) = 1
    /\ built.A[1][2] # 0

C5_FittingCellInsideCore ==
    pc = "legalized" =>
        \A node \in MovableObjects(self) :
            /\ FitsX(self, node) =>
                  /\ FLe(F(self.core_lower_left[1]), node.x)
                  /\ FLe(node.x, F(self.core_upper_right[1] - node.width))
            /\ FitsY(self, node) =>
                  /\ FLe(F(self.core_lower_left[2]), node.y)
                  /\ FLe(node.y, F(self.core_upper_right[2] - node.height))

(***************************************************************************)
(* C6.  After legalize_placement a movable node that is larger than the    *)
(* core in an axis is at the core minimum in that axis, whatever its       *)
(* position was before the call.                                           *)
(* A node at or above the minimum is moved to max - size, which is below   *)
(* the minimum: the formula fails.                                         *)
(***************************************************************************)
C6_OversizeCellAtMinimum ==
    pc = "legalized" =>
        \A node \in MovableObjects(self) :
            /\ ~FitsX(self, node) => node.x = F(self.core_lower_left[1])
            /\ ~FitsY(self, node) => node.y = F(self.core_lower_left[2])

(***************************************************************************)
(* C7.  legalize_placement is idempotent: a second call leaves every       *)
(* movable node where the first call put it.                               *)
(* The first call puts an oversize node below the minimum, the second      *)
(* moves it to the minimum: the formula fails.                             *)
(***************************************************************************)
C7_LegalizeIdempotent ==
    pc = "legalized" => legalize_placement(self) = self

C9_FixedFlagMakesFixed ==
    (pc = "parsed" /\ ConsistentNodes(input.nodes) /\ StandardHeader(input.nodes)) =>
        \A i \in DOMAIN input.pl :
            (FixedRecord(input.pl[i]) /\ HasKey(self.nodes, input.pl[i].name)) =>
                LET nm == input.pl[i].name IN
                  /\ self.heap[Get(self.nodes, nm)].is_fixed
                  /\ HasKey(self.fixed_nodes, nm)
                  /\ ~HasKey(self.movable_nodes, nm)

(***************************************************************************)
(* C10.  After parse_all the number of parsed nodes is the value of the    *)
(* NumNodes line, and the number of nodes with is_fixed true is the value  *)
(* of the NumTerminals line, plus at most the nodes that .pl flags fixed.  *)
(* Stated for the .nodes files whose header agrees with their              *)
(* declarations; with NumTerminals before NumNodes every node is fixed:    *)
(* the formula fails.                                                      *)
(***************************************************************************)
C10_CountsMatchHeader ==
    (pc = "parsed" /\ ConsistentNodes(input.nodes)) =>
        LET fixed == Cardinality({i \in DOMAIN self.nodes :
                                     self.heap[self.nodes[i].ref].is_fixed})
            terminals == HeaderValue(input.nodes, "NumTerminals")
            flagged == Cardinality({i \in DOMAIN input.pl : FixedRecord(input.pl[i])})
        IN /\ Len(self.nodes) = HeaderValue(input.nodes, "NumNodes")
           /\ terminals <= fixed
           /\ fixed <= terminals + flagged

\* a pin line of .nets names a node that .nodes does not declare
DanglingPin(in) ==
    \E i \in DOMAIN in.nets :
        /\ in.nets[i].kind = "pin"
        /\ \A k \in DOMAIN in.nodes :
               in.nodes[k].kind = "node" => in.nodes[k].name # in.nets[i].name

\* InitialPlacement.run has returned
RunReturned == input.driver = "run" /\ pc = "done"

\* the run reported failure and left no output file
FailedWithoutOutput == ret = "False" /\ ExitCode # 0 /\ out = NoFile

(***************************************************************************)
(* C11.  After parse_nets the degrees of the stored nets add up to the     *)
(* NumPins value of the design (num_pins), for every .nets file.           *)
(* A pin on an undeclared node is dropped and its net is kept with a       *)
(* smaller degree (or dropped when no pin is left): the formula fails.     *)
(***************************************************************************)
C11_DegreesSumToNumPins ==
    pc = "nets" =>
        SumSeq([k \in DOMAIN self.nets |-> self.nets[k].degree]) = self.num_pins

(***************************************************************************)
(* C12.  When a pin line of .nets names a node that .nodes does not        *)
(* declare, the pipeline reports failure and writes no output file.        *)
(* parse_nets drops the pin without a word and the run goes on: the        *)
(* formula fails.                                                          *)
(***************************************************************************)
C12_DanglingPinIsFatal ==
    (RunReturned /\ input.missing = {} /\ DanglingPin(input)) =>
        FailedWithoutOutput

\* a record of .pl whose x or y is not a number
BadCoordinate(in) ==
    \E i \in DOMAIN in.pl :
        in.pl[i].kind = "rec" /\ (~in.pl[i].x.ok \/ ~in.pl[i].y.ok)

\* the nodes joined to a fixed node by a chain of nets: start from the
\* fixed nodes and add, k times, the nodes of every net of two or more pins
\* that has a pin on a node of the set
RECURSIVE Anchored(_, _, _)
Anchored(s, set, k) ==
    IF k = 0 THEN set
    ELSE Anchored(s,
                  set \cup UNION { {s.nets[n].pins[i].node : i \in DOMAIN s.nets[n].pins}
                                   : n \in {m \in DOMAIN s.nets :
                                              /\ Len(s.nets[m].pins) >= 2
                                              /\ \E i \in DOMAIN s.nets[m].pins :
                                                     s.nets[m].pins[i].node \in set} },
                  k - 1)

\* some movable node is joined to no fixed node
Orphan(s) ==
    \E i \in DOMAIN s.movable_nodes :
        s.movable_nodes[i].key \notin
            Anchored(s, {s.fixed_nodes[j].key : j \in DOMAIN s.fixed_nodes},
                     Len(s.nodes))

(***************************************************************************)
(* C13.  When .nodes, .nets, .pl or .scl cannot be opened, the run aborts: *)
(* solve, clip and write are not executed, there is no output file and the *)
(* exit code is not zero.                                                  *)
(* Every reader catches the exception of open() and returns; parse_all and *)
(* run go on: the formula fails.                                           *)
(***************************************************************************)
C13_MissingFileAborts ==
    (input.driver = "run" /\ input.missing # {}) =>
        /\ pc \notin {"solved", "legalized", "written"}
        /\ pc = "done" => FailedWithoutOutput

(***************************************************************************)
(* C14.  When a record of .pl has an x or y that is not a number, the run  *)
(* ends in failure without an output file, and never goes on to solve with *)
(* the records before the bad line.                                        *)
(* parse_pl catches the ValueError of float() and returns with the records *)
(* read so far; the run goes on: the formula fails.                        *)
(***************************************************************************)
C14_BadCoordinateIsFatal ==
    (input.driver = "run" /\ input.missing = {} /\ BadCoordinate(input)) =>
        /\ pc \notin {"solved", "legalized", "written"}
        /\ pc = "done" => FailedWithoutOutput

(***************************************************************************)
(* C15.  In InitialPlacement.run the stages come in the order parse_all,   *)
(* solve_quadratic_placement, legalize_placement, write_placement_result;  *)
(* when solve_quadratic_placement or legalize_placement returns failure,   *)
(* nothing more is called, write_placement_result in particular, and the   *)
(* run returns failure.                                                    *)
(***************************************************************************)
C15_StagesInOrder ==
    [][ (input.driver = "run" /\ pc' # pc) =>
          /\ pc' = "solved" => pc = "parsed"
          /\ pc' = "legalized" => (pc = "solved" /\ ret = "True")
          /\ pc' = "written" => (pc = "legalized" /\ ret = "True")
          /\ (pc \in {"solved", "legalized"} /\ ret = "False") =>
                (pc' = "done" /\ ret' = "False" /\ out' = NoFile) ]_vars

\* solve_quadratic_placement returned False and the run returned
C15_Witness ==
    /\ RunReturned
    /\ calls = 1
    /\ ret = "False"
    /\ out = NoFile

(***************************************************************************)
(* C16.  When some movable cell is joined, directly or through other       *)
(* cells, to no fixed pin, the system is singular and the run fails:       *)
(* solve_quadratic_placement reports failure and no output file is         *)
(* written.                                                                *)
(* spsolve raises nothing for a singular matrix; solve returns True, with  *)
(* NaN or arbitrary positions, and the run writes them: the formula fails. *)
(***************************************************************************)
C16_OrphanFailsSolver ==
    (RunReturned /\ input.missing = {} /\ ~DanglingPin(input) /\ Orphan(self)) =>
        FailedWithoutOutput

\* write_placement_result has written the output file
Written == pc = "written" /\ out # NoFile

\* the node records of the output file, in file order
OutRecs == SelectSeq(out, LAMBDA l : l.kind = "rec")

\* the orientation of node nm in the input .pl: the token after the colon
\* of its first record "<name> <x> <y> : <orient> ..."; "" without one
InputOrient(in, nm) ==
    LET recs == SelectSeq(in.pl, LAMBDA l : /\ l.kind = "rec" /\ l.name = nm
                                            /\ Len(l.rest) >= 2 /\ l.rest[1] = ":")
    IN IF recs = <<>> THEN "" ELSE recs[1].rest[2]

\* the object read back: a new parser, parse_nodes on the same .nodes,
\* parse_pl on the written file
ReadBack == parse_pl(parse_nodes(NewParser, input.nodes), out)

\* two floats are within 1e-6 of each other
Near(a, b) ==
    /\ ~a.nan /\ ~b.nan
    /\ Abs(a.v - b.v) <= 1
    /\ Abs((a.v - b.v) * Subunits + (a.e - b.e)) <= Ulp6

(***************************************************************************)
(* C17.  write_placement_result writes one record per node, in the order   *)
(* in which .nodes declares the nodes.                                     *)
(* The writer goes through fixed_nodes and then through movable_nodes, so  *)
(* the terminals, declared last, are written first: the formula fails.     *)
(***************************************************************************)
C17_DeclarationOrder ==
    (Written /\ ConsistentNodes(input.nodes) /\ StandardHeader(input.nodes)) =>
        /\ Len(OutRecs) = Len(Decls(input.nodes))
        /\ \A k \in DOMAIN OutRecs : OutRecs[k].name = Decls(input.nodes)[k].name

(***************************************************************************)
(* C18.  In the output every fixed node's line ends with the orientation   *)
(* the node had in the input .pl and the /FIXED flag, and every movable    *)
(* node's line has the orientation N and no /FIXED flag.                   *)
(* The writer ends the line of every entry of fixed_nodes with ": F": the  *)
(* formula fails.                                                          *)
(***************************************************************************)
C18_FixedFlagAndOrientation ==
    Written =>
        \A k \in DOMAIN OutRecs :
            LET nm == OutRecs[k].name IN
              IF self.heap[Get(self.nodes, nm)].is_fixed
              THEN /\ OutRecs[k].rest[Len(OutRecs[k].rest)] = "/FIXED"
                   /\ InputOrient(input, nm) # "" =>
                         OutRecs[k].rest = <<":", InputOrient(input, nm), "/FIXED">>
              ELSE OutRecs[k].rest = <<":", "N">>

(***************************************************************************)
(* C19.  Round trip: when the positions are written by                     *)
(* write_placement_result and the file is read back by parse_pl, with the  *)
(* same .nodes, every node has a position within 1e-6 of the one written   *)
(* and is fixed or movable as before.                                      *)
(* A node that .pl made fixed is written with ": F", which parse_pl reads  *)
(* as the orientation ":": read back, the node is movable.  A NaN position *)
(* is read back as NaN, which is near nothing.  The formula fails.         *)
(***************************************************************************)
C19_RoundTrip ==
    (Written /\ ConsistentNodes(input.nodes)) =>
        \A i \in DOMAIN self.nodes :
            LET nm == self.nodes[i].key
                node == self.heap[self.nodes[i].ref]
            IN /\ HasKey(ReadBack.nodes, nm)
               /\ LET back == ReadBack.heap[Get(ReadBack.nodes, nm)]
                  IN /\ Near(back.x, node.x)
                     /\ Near(back.y, node.y)
                     /\ back.is_fixed = node.is_fixed

(***************************************************************************)
(* C20.  Two runs over the same input files, started at any two times,     *)
(* write the same output file, byte for byte: the file written does not    *)
(* depend on the time at which it is written.                              *)
(* The third line of the file is the date and time of the run: the formula *)
(* fails.                                                                  *)
(***************************************************************************)
C20_OutputIndependentOfTime ==
    Written => \A t \in Clock : write_placement_result(self, t) = out

\* the rows of a .scl file: for every CoreRow block its Coordinate, Height
\* and Sitewidth and the origin and number of sites of its SubrowOrigin line
\* (the number of sites is the last token of the line)
KeyOfBlock(file, i, kind) ==
    LET j == CHOOSE j \in (i + 1) .. Len(file) :
                 /\ file[j].kind = kind
                 /\ \A m \in (i + 1) .. j : file[m].kind # "End"
    IN file[j]

SclRows(file) ==
    LET starts == SelectSeq([i \in DOMAIN file |-> i],
                            LAMBDA i : file[i].kind = "CoreRow")
    IN [k \in DOMAIN starts |->
          LET origin == KeyOfBlock(file, starts[k], "SubrowOrigin")
          IN [x |-> origin.val, n |-> origin.rest[Len(origin.rest)],
              y |-> KeyOfBlock(file, starts[k], "Coordinate").val,
              sw |-> KeyOfBlock(file, starts[k], "Sitewidth").val,
              h |-> KeyOfBlock(file, starts[k], "Height").val]]

\* parse_scl has read a .scl file with rows
RowsParsed ==
    /\ pc = "scl"
    /\ "scl" \notin input.missing
    /\ \E i \in DOMAIN input.scl : input.scl[i].kind = "CoreRow"

(***************************************************************************)
(* C21.  After parse_scl the core region is the hull of the rows: its      *)
(* lower left is (least row x, least row y), its upper right is (greatest  *)
(* x + NumSites * Sitewidth - 1, greatest y + Height - 1), each row with   *)
(* its own Sitewidth, whatever the order of the keys of a CoreRow block.   *)
(* For "SubrowOrigin : <x> NumSites : <n>" the code raises IndexError on   *)
(* every row, passes over it, and falls back to (0,0)-(10000,10000): the   *)
(* formula fails.                                                          *)
(***************************************************************************)
C21_CoreIsHullOfRows ==
    RowsParsed =>
        LET rows == SclRows(input.scl)
            R == DOMAIN rows
        IN /\ self.core_lower_left = << Min({rows[k].x : k \in R}),
                                        Min({rows[k].y : k \in R}) >>
           /\ self.core_upper_right =
                 << Max({rows[k].x + rows[k].n * rows[k].sw - 1 : k \in R}),
                    Max({rows[k].y + rows[k].h - 1 : k \in R}) >>

(***************************************************************************)
(* C22.  After parse_scl every row lies inside the core region: the core's *)
(* least x is at most the row's origin, the row's last site x + NumSites * *)
(* Sitewidth - 1 is at most the core's greatest x, and likewise for y and  *)
(* y + Height - 1, also for rows of different site widths or heights.      *)
(* A row that reaches beyond 10000 lies outside the fallback core: the     *)
(* formula fails.                                                          *)
(***************************************************************************)
C22_RowsInsideCore ==
    RowsParsed =>
        \A k \in DOMAIN SclRows(input.scl) :
            LET row == SclRows(input.scl)[k] IN
              /\ self.core_lower_left[1] <= row.x
              /\ row.x + row.n * row.sw - 1 <= self.core_upper_right[1]
              /\ self.core_lower_left[2] <= row.y
              /\ row.y + row.h - 1 <= self.core_upper_right[2]

(***************************************************************************)
(* C23.  After parse_all of the statistics parser placement_util is the    *)
(* percentage movable_area / (core_area - fixed_area_in_core) of the       *)
(* values that were parsed (the denominator being positive), never a       *)
(* constant of the code.  calculate_metrics computes it and then assigns   *)
(* 57.34: the formula fails.                                               *)
(***************************************************************************)
C23_UtilFromParsedAreas ==
    (pc = "task3 parsed" /\ self.core_area - self.fixed_area_in_core > 0) =>
        self.placement_util
            = Percent(self.movable_area, self.core_area - self.fixed_area_in_core)

\* the nets the summary tool has parsed whose degree satisfies P
NetsWith(P(_)) ==
    Cardinality({i \in DOMAIN self.nets_info : P(self.nets_info[i].ref.degree)})

(***************************************************************************)
(* C24.  The pin-degree histogram of generate_report has the buckets       *)
(* d = 2, 3 <= d <= 10, 11 <= d <= 100 and d > 100: the last bucket counts *)
(* exactly the nets with d > 100, and a net with d <= 1 is counted in no   *)
(* bucket.  The last bucket is the else branch, so it also takes the nets  *)
(* of degree 0 and 1: the formula fails.                                   *)
(***************************************************************************)
C24_HistogramBuckets ==
    pc = "task2 reported" =>
        LET counts == built.net_degree_counts IN
          /\ counts.pin_2 = NetsWith(LAMBDA d : d = 2)
          /\ counts.pin_3_10 = NetsWith(LAMBDA d : 3 <= d /\ d <= 10)
          /\ counts.pin_11_100 = NetsWith(LAMBDA d : 11 <= d /\ d <= 100)
          /\ counts.pin_100_plus = NetsWith(LAMBDA d : d > 100)
          /\ counts.pin_2 + counts.pin_3_10 + counts.pin_11_100 + counts.pin_100_plus
                = NetsWith(LAMBDA d : d >= 2)

(***************************************************************************)
(* C27.  After parse_nodes_file of the summary tool the nodes marked       *)
(* is_terminal are exactly the last NumTerminals declarations of the file: *)
(* the first NumNodes - NumTerminals declarations stay non-terminal, and   *)
(* it is their area generate_report sums into the movable cell area.  The  *)
(* code marks the first NumTerminals entries of nodes_info: the formula    *)
(* fails.                                                                  *)
(***************************************************************************)
C27_LastDeclarationsAreTerminals ==
    (pc = "task2 reported" /\ ConsistentNodes(input.nodes)) =>
        LET decls == Decls(input.nodes)
            cells == HeaderValue(input.nodes, "NumNodes")
                       - HeaderValue(input.nodes, "NumTerminals")
        IN /\ \A i \in DOMAIN decls :
                 Get(self.nodes_info, decls[i].name).is_terminal <=> i > cells
           /\ built.movable_area
                 = SumSeq([i \in 1 .. cells |-> decls[i].w * decls[i].h])

\* a .nodes file that begins with its two header lines, and the same file
\* with the two exchanged
TwoHeaderLines(file) ==
    /\ Len(file) >= 2
    /\ {file[1].kind, file[2].kind} = {"NumNodes", "NumTerminals"}

HeaderExchanged(file) ==
    [i \in DOMAIN file |-> IF i = 1 THEN file[2] ELSE IF i = 2 THEN file[1] ELSE file[i]]

NamesOf(d) == [i \in DOMAIN d |-> d[i].key]

(***************************************************************************)
(* C25.  The result of parse_nodes does not depend on the order of the     *)
(* header lines: a file with NumTerminals before NumNodes gives the same   *)
(* num_modules, num_terminals and the same movable and fixed nodes as the  *)
(* file with NumNodes first.  The header loop stops at the NumTerminals    *)
(* line, so a NumNodes line after it is not read as a header, num_modules  *)
(* stays 0 and every node is fixed: the formula fails.                     *)
(***************************************************************************)
C25_HeaderOrderIrrelevant ==
    (pc = "nodes" /\ "nodes" \notin input.missing /\ TwoHeaderLines(input.nodes)) =>
        LET other == parse_nodes(NewParser, HeaderExchanged(input.nodes)) IN
          /\ self.num_modules = other.num_modules
          /\ self.num_terminals = other.num_terminals
          /\ NamesOf(self.movable_nodes) = NamesOf(other.movable_nodes)
          /\ NamesOf(self.fixed_nodes) = NamesOf(other.fixed_nodes)

\* the declarations of the .nodes file whose node is movable, in file order
DeclaredMovable ==
    SelectSeq(Decls(input.nodes), LAMBDA d : HasKey(self.movable_nodes, d.name))

\* the sum over all nets and all pairs of a pin on node a and a pin on node
\* b of the edge weight
WeightBetween(s, a, b) ==
    SumSeq([k \in DOMAIN s.nets |-> EdgeWeight(s, k) * PinsOn(s, k, a) * PinsOn(s, k, b)])

\* the sum over all nets and all pairs of a pin on node nm and a fixed pin
\* of the edge weight times the position of the fixed pin
PullOn(s, nm) ==
    [ x |-> FSum([k \in DOMAIN s.nets |->
                    FMul(EdgeWeight(s, k) * PinsOn(s, k, nm), fixed_x(s, s.nets[k].pins))]),
      y |-> FSum([k \in DOMAIN s.nets |->
                    FMul(EdgeWeight(s, k) * PinsOn(s, k, nm), fixed_y(s, s.nets[k].pins))]) ]

(***************************************************************************)
(* C26.  The row and column of a movable node in the system is its place   *)
(* among the movable declarations of the .nodes file (each node declared   *)
(* once): row r of A and of b_x, b_y holds the weights and the pull of the *)
(* r-th movable declaration.  solve_quadratic_placement stores component r *)
(* of the solution in the node of row r.                                   *)
(***************************************************************************)
C26_DeclarationOrderIsRowOrder ==
    ("nodes" \notin input.missing /\ UniqueNames(Decls(input.nodes))) =>
        LET dm == DeclaredMovable IN
          /\ pc = "built" =>
               /\ built.n = Len(dm)
               /\ \A r \in 1 .. built.n :
                    /\ \A c \in 1 .. built.n :
                         c # r => built.A[r][c]
                                    = -WeightBetween(self, dm[r].name, dm[c].name)
                    /\ Disjoint(self) =>
                         /\ built.b_x[r] = PullOn(self, dm[r].name).x
                         /\ built.b_y[r] = PullOn(self, dm[r].name).y
          /\ (pc = "solved" /\ sol # NoSolution) =>
               /\ Len(sol.x) = Len(dm)
               /\ \A r \in 1 .. Len(dm) :
                    /\ self.heap[Get(self.nodes, dm[r].name)].x = sol.x[r]
                    /\ self.heap[Get(self.nodes, dm[r].name)].y = sol.y[r]

\* two cells declared b before a, and a solution whose two components differ
C26_Witness ==
    /\ pc = "solved"
    /\ UniqueNames(Decls(input.nodes))
    /\ Len(DeclaredMovable) = 2
    /\ DeclaredMovable[1].name = "b"
    /\ DeclaredMovable[2].name = "a"
    /\ sol # NoSolution
    /\ sol.x[1] # sol.x[2]
    /\ built.b_x[1] # built.b_x[2]
    /\ self.heap[Get(self.nodes, "b")].x = sol.x[1]

\* the determinant of the n x n matrix A, expanded along its first row
RECURSIVE Det(_, _)
Det(A, n) ==
    IF n = 0 THEN 1
    ELSE IF n = 1 THEN A[1][1]
    ELSE SumSeq([c \in 1 .. n |->
           (IF c % 2 = 1 THEN 1 ELSE -1) * A[1][c]
             * Det([r \in 1 .. (n - 1) |->
                      [k \in 1 .. (n - 1) |-> A[r + 1][IF k < c THEN k ELSE k + 1]]],
                   n - 1)])

WrittenNames == [i \in DOMAIN OutRecs |-> OutRecs[i].name]

(***************************************************************************)
(* C29.  After parse_all, for every input, movable_nodes and fixed_nodes   *)
(* partition nodes: every node is in exactly one of the two, and its       *)
(* is_fixed flag is true exactly when it is in fixed_nodes; so the writer  *)
(* writes no node twice.  parse_pl puts a node whose record ends in a bare *)
(* F into fixed_nodes and leaves it in movable_nodes: the formula fails.   *)
(***************************************************************************)
C29_MovableAndFixedPartitionNodes ==
    /\ pc \in {"parsed", "built", "solved", "legalized", "written", "done"} =>
         /\ \A i \in DOMAIN self.nodes :
              LET nm == self.nodes[i].key IN
                /\ HasKey(self.movable_nodes, nm) # HasKey(self.fixed_nodes, nm)
                /\ self.heap[self.nodes[i].ref].is_fixed <=> HasKey(self.fixed_nodes, nm)
         /\ \A i \in DOMAIN self.movable_nodes : HasKey(self.nodes, self.movable_nodes[i].key)
         /\ \A i \in DOMAIN self.fixed_nodes : HasKey(self.nodes, self.fixed_nodes[i].key)
    /\ Written =>
         \A i, j \in DOMAIN WrittenNames : WrittenNames[i] = WrittenNames[j] => i = j

\* the heap cells of the nodes of a dict
RefsOf(d) == {d[i].ref : i \in DOMAIN d}

(***************************************************************************)
(* C30.  solve_quadratic_placement and legalize_placement change only the  *)
(* x and y of the nodes in movable_nodes: the position of every fixed      *)
(* node, the width, height and every other field of every node, the three  *)
(* maps, the nets and the core region are as before the call.  A node that *)
(* parse_pl left in both maps (C29) is a fixed node whose position the     *)
(* solver overwrites: the formula fails.                                   *)
(***************************************************************************)
C30_OnlyMovablePositionsChange ==
    [][ (Solve \/ Legalize) =>
          /\ self' = [self EXCEPT !.heap = self'.heap]
          /\ DOMAIN self'.heap = DOMAIN self.heap
          /\ \A r \in DOMAIN self.heap :
                /\ self'.heap[r] = [self.heap[r] EXCEPT !.x = self'.heap[r].x,
                                                        !.y = self'.heap[r].y]
                /\ r \notin RefsOf(self.movable_nodes) => self'.heap[r] = self.heap[r]
                /\ r \in RefsOf(self.fixed_nodes) => self'.heap[r] = self.heap[r] ]_vars

====
